---- MODULE Spec2Model ----
(***************************************************************************)
(* Festival Pulse ingestion: the RA GraphQL client (ra-client.ts), the    *)
(* sync orchestrator (sync.ts), the extra scraper (scrape-extra.ts) and    *)
(* the manual enrichment script (manual-enrich.ts) over the relational     *)
(* store (schema.ts).                                                      *)
(* Strings are sequences of one-character strings, row ids are the row's   *)
(* position in its table, 0 is null.                                       *)
(***************************************************************************)
EXTENDS Integers, Sequences, FiniteSets, TLC

\* ------------------------------------------------------------------ bounds
\* store faults that may be injected in one behaviour (scattered)
MaxFaults == 1
\* syncArea calls, and runs of the other scripts, in one behaviour
MaxCalls == 2
\* regions main may be configured with
MaxRegions == 2
\* largest totalResults a server declares
MaxTotal == 4
\* last page number at which a server may fail
MaxFailPage == 2
\* length of one contiguous store outage (burst of faults)
MaxBurst == 22
\* artists of the long listing used under an outage
MaxSlots == 22
\* longest name handed to slugify on its own
MaxLen == 4
\* ingestion processes at work on the store at the same time
MaxProcs == 2

\* ------------------------------------------------------------- characters
UpperCase ==
    <<"A","B","C","D","E","F","G","H","I","J","K","L","M",
      "N","O","P","Q","R","S","T","U","V","W","X","Y","Z">>
LowerCase ==
    <<"a","b","c","d","e","f","g","h","i","j","k","l","m",
      "n","o","p","q","r","s","t","u","v","w","x","y","z">>
Digits == <<"0","1","2","3","4","5","6","7","8","9">>

\* letters with a diacritic, written as one character each, and their base
AccentUpper == <<"E_acute", "O_acute", "O_uml", "U_circ">>
AccentLower == <<"e_acute", "o_acute", "o_uml", "u_circ">>
AccentBase == <<"e", "o", "o", "u">>

Range(s) == {s[i] : i \in DOMAIN s}

\* String.prototype.toLowerCase on one character
toLowerCase(c) ==
    IF c \in Range(UpperCase)
    THEN LowerCase[CHOOSE i \in DOMAIN UpperCase : UpperCase[i] = c]
    ELSE IF c \in Range(AccentUpper)
    THEN AccentLower[CHOOSE i \in DOMAIN AccentUpper : AccentUpper[i] = c]
    ELSE c

\* .normalize("NFD").replace(/[\u0300-\u036f]/g, "") on one lower-case
\* character: the letter is decomposed and its combining mark removed
StripMarks(c) ==
    IF c \in Range(AccentLower)
    THEN AccentBase[CHOOSE i \in DOMAIN AccentLower : AccentLower[i] = c]
    ELSE c

\* the character class [a-z0-9]
IsAlnum(c) == c \in Range(LowerCase) \cup Range(Digits)

\* .replace(/[^a-z0-9]+/g, "-")
RECURSIVE ReplaceNonAlnum(_)
ReplaceNonAlnum(s) ==
    IF s = <<>> THEN <<>>
    ELSE LET n == Len(s)
             init == ReplaceNonAlnum(SubSeq(s, 1, n - 1))
         IN  IF IsAlnum(s[n]) THEN Append(init, s[n])
             ELSE IF n > 1 /\ ~IsAlnum(s[n - 1]) THEN init
             ELSE Append(init, "-")

\* the slug with its edges left as they are
TrimNothing(s) == s

\* .replace(/^-|-$/g, "")
TrimHyphens(s) ==
    LET a == IF s # <<>> /\ s[1] = "-" THEN Tail(s) ELSE s
    IN  IF a # <<>> /\ a[Len(a)] = "-" THEN SubSeq(a, 1, Len(a) - 1) ELSE a

\* sync.ts slugify
slugify(text) ==
    TrimHyphens(ReplaceNonAlnum([i \in DOMAIN text |-> toLowerCase(text[i])]))

\* the key without the external id
FestivalSlugTitleOnly(event) == slugify(event.title)

\* slugify(event.title) + `-${event.id}`
FestivalSlug(event) == slugify(event.title) \o <<"-">> \o event.id

\* manual-enrich.ts slugify
slugifyNFD(name) ==
    TrimHyphens(ReplaceNonAlnum(
        [i \in DOMAIN name |-> StripMarks(toLowerCase(name[i]))]))

\* slugify(data.name) + "-2026"
EventSlug(name) == slugify(name) \o <<"-","2","0","2","6">>

\* name.substring(0, 20)
Substring20(name) == SubSeq(name, 1, IF Len(name) < 20 THEN Len(name) ELSE 20)

\* SQL LIKE: % matches any run of characters, _ any one character, and a
\* backslash makes the next pattern character literal (a pattern ending in a
\* lone backslash matches nothing here)
RECURSIVE LikeMatch(_, _)
LikeMatch(str, pat) ==
    IF pat = <<>> THEN str = <<>>
    ELSE IF Head(pat) = "%"
    THEN LikeMatch(str, Tail(pat)) \/ (str # <<>> /\ LikeMatch(Tail(str), pat))
    ELSE IF Head(pat) = "_"
    THEN str # <<>> /\ LikeMatch(Tail(str), Tail(pat))
    ELSE IF Head(pat) = "\\"
    THEN /\ Len(pat) >= 2 /\ str # <<>> /\ Head(str) = pat[2]
         /\ LikeMatch(Tail(str), Tail(Tail(pat)))
    ELSE str # <<>> /\ Head(str) = Head(pat) /\ LikeMatch(Tail(str), Tail(pat))

\* ilike(column, pattern): LIKE without regard to case
ilike(str, pat) ==
    LikeMatch([i \in DOMAIN str |-> toLowerCase(str[i])],
              [i \in DOMAIN pat |-> toLowerCase(pat[i])])
\* `%${text}%`
Containing(text) == <<"%">> \o text \o <<"%">>

\* ------------------------------------------------------------------ inputs
Null == 0
NoVenue == [name |-> <<>>, city |-> <<>>]

ListingA ==
    [id |-> <<"1">>, title |-> <<"A","b">>, date |-> "d1", attending |-> 1,
     venue |-> [name |-> <<"V","x">>, city |-> <<"U">>],
     artists |-> << <<"B","o">>, <<"c"," ","z">> >>]
\* same title as ListingA, another external id, no venue, no artists
ListingB ==
    [id |-> <<"2">>, title |-> <<"A","b">>, date |-> "d1", attending |-> 1,
     venue |-> NoVenue, artists |-> <<>>]
\* same festival key as ListingA with other data; venue name differs by case;
\* the artist is a case variant of ListingA's first artist
ListingC ==
    [id |-> <<"1">>, title |-> <<"a","B">>, date |-> "d2", attending |-> 2,
     venue |-> [name |-> <<"v","x">>, city |-> <<"W">>],
     artists |-> << <<"b","O">> >>]

SlotName(i) == <<"d", Digits[(i \div 10) + 1], Digits[(i % 10) + 1]>>
\* one listing with MaxSlots artists of distinct names
ListingLong ==
    [id |-> <<"3">>, title |-> <<"L">>, date |-> "d1", attending |-> 0,
     venue |-> NoVenue, artists |-> [i \in 1..MaxSlots |-> SlotName(i)]]

\* the listing of Envision Festival as the remote API serves it
TitleEnvision == <<"E","n","v","i","s","i","o","n"," ","F","e","s","t","i","v","a","l">>
ListingEnvision ==
    [id |-> <<"1","2","3">>, title |-> TitleEnvision, date |-> "2026-02-23", attending |-> 1,
     venue |-> [name |-> <<"R","a","n","c","h","o"," ","L","a"," ","M","e","r","c","e","d">>, city |-> <<"U","v","i","t","a">>],
     artists |-> << <<"B","o","b"," ","M","o","s","e","s">>, <<"C","l","o","Z","e","e">> >>]
\* a second listing of the same title under another id, whose venue differs
\* by case and whose line-up names one artist twice
ListingRepeat ==
    [id |-> <<"1","2","4">>, title |-> TitleEnvision, date |-> "2026-02-24", attending |-> 2,
     venue |-> [name |-> <<"r","a","n","c","h","o"," ","l","a"," ","m","e","r","c","e","d">>, city |-> <<"D","o","m","i","n","i","c","a","l">>],
     artists |-> << <<"B","O","B"," ","M","O","S","E","S">>, <<"B","o","b"," ","M","o","s","e","s">> >>]
\* a listing without venue or line-up
ListingBare ==
    [id |-> <<"1","2","5">>, title |-> <<"T","a","r","d","e","o"," ","S","u","n","s","e","t"," ","P","a","r","t","y">>, date |-> "2026-02-15",
     attending |-> 0, venue |-> NoVenue, artists |-> <<>>]
\* the listing of 3AM Anniversary, held at the club manual-enrich.ts names
ListingKoko ==
    [id |-> <<"1","2","6">>, title |-> <<"3","A","M"," ","A","n","n","i","v","e","r","s","a","r","y">>, date |-> "2026-02-22",
     attending |-> 3,
     venue |-> [name |-> <<"U_circ"," ","K","o_acute","k","o"," ","C","l","u","b">>, city |-> <<"S","a","n"," ","J","o","s","e_acute">>],
     artists |-> <<>>]
PageListsIngest ==
    { << <<ListingEnvision>>, <<ListingRepeat, ListingBare>> >>,
      << <<ListingEnvision>> >> }

\* arguments insertEvent is called with
EventInputs ==
    { [name |-> TitleEnvision, startDate |-> "2026-02-23",
       artistNames |-> << <<"B","o","b"," ","M","o","s","e","s">>, <<"b","o","b"," ","m","o","s","e","s">> >>],
      [name |-> <<"T","a","r","d","e","o"," ","S","u","n","s","e","t"," ","P","a","r","t","y">>, startDate |-> "2026-02-15",
       artistNames |-> <<>>] }

\* further candidates for insertEvent: short names, one of them in another
\* case, names holding the characters LIKE reads as wildcards or as its
\* escape, and two names of more than 20 characters that part after the 20th
EventNames ==
    { <<"a","b","c">>, <<"A","B","C">>, <<"a","_","c">>, <<"a","%","c">>,
      <<"a","\\","c">>,
      <<"E","n","v","i","s","i","o","n"," ","F","e","s","t","i","v","a","l"," ","2","0","2","6">>,
      <<"E","n","v","i","s","i","o","n"," ","F","e","s","t","i","v","a","l"," ","2","0","2","7">> }
EventInputsFor(w) ==
    IF w = "events"
    THEN EventInputs \cup
         {[name |-> n, startDate |-> "2026-03-01", artistNames |-> <<>>] :
             n \in EventNames}
    ELSE EventInputs

\* manual-enrich.ts: the names and slugs the script is written with
RanchoLaMerced == <<"R","a","n","c","h","o"," ","L","a"," ","M","e","r","c","e","d">>
UvitaPuntarenas == <<"U","v","i","t","a",","," ","P","u","n","t","a","r","e","n","a","s">>
Envision == <<"E","n","v","i","s","i","o","n">>
artistNames ==
    <<<<"B","o","b"," ","M","o","s","e","s">>,
      <<"C","l","o","Z","e","e">>,
      <<"D","a","i","l","y"," ","B","r","e","a","d">>,
      <<"E","m","a","n","c","i","p","a","t","o","r">>,
      <<"P","o","l","o"," ","&"," ","P","a","n">>,
      <<"D","a","m","i","a","n"," ","L","a","z","a","r","u","s">>,
      <<"D","e","z","a","r","i","e">>,
      <<"I","v","y"," ","L","a","b">>,
      <<"M","e","m","b","a">>,
      <<"S","h","i","m","a">>,
      <<"C","h","a","n","c","h","a"," ","V","i","a"," ","C","i","r","c","u","i","t","o">>,
      <<"G","r","o","u","c","h"," ","i","n"," ","D","u","b">>,
      <<"C","h","r","i","s","t","i","a","n"," ","L","o_uml","f","f","l","e","r">>,
      <<"P","a","r","r","a"," ","f","o","r"," ","C","u","v","a">>,
      <<"J","u","s","t","i","n"," ","M","a","r","t","i","n">>,
      <<"R","a","m","p","u","e">>,
      <<"5","A","M"," ","T","r","i","o">>,
      <<"M","a","g","p","i","e"," ","J","a","y">>,
      <<"M","f","i","n","i","t","y">>,
      <<"N","i","n","a">>,
      <<"N","o","m","i","n","u","s">>,
      <<"O","v","e","o","u","s">>,
      <<"Y","o","k","o">>,
      <<"N","i","c","k","o","d","e","m","u","s">>,
      <<"J","u","j","u">>,
      <<"C","a","m","i","l","o">>,
      <<"Z","u","m","a"," ","D","i","o","n","y","s">>>>
tardeoSlug == <<"t","a","r","d","e","o","-","s","u","n","s","e","t","-","p","a","r","t","y","-","2","0","2","6">>
TardeoSunsetParty == <<"T","a","r","d","e","o"," ","S","u","n","s","e","t"," ","P","a","r","t","y">>
SanRamon == <<"S","a","n"," ","R","a","m","o","n">>
threeAmSlug == <<"3","a","m","-","a","n","n","i","v","e","r","s","a","r","y","-","2","0","2","6">>
ThreeAmAnniversary == <<"3","A","M"," ","A","n","n","i","v","e","r","s","a","r","y">>
KokoClub == <<"U_circ"," ","K","o_acute","k","o"," ","C","l","u","b">>
SanJose == <<"S","a","n"," ","J","o","s","e_acute">>

PageLists ==
    { << <<ListingA, ListingB>>, <<ListingC>> >>,
      << <<ListingA>> >>,
      << >> }
PageListsLong ==
    { << <<ListingLong>>, <<ListingA>> >> }

\* a remote server: the pages it serves, the total it declares, and the page
\* at which the request fails (0: never), by a non-success response ("http")
\* or by a thrown transport/parse error ("throw"). A failing server declares
\* the largest total, so that the failing page is requested.
ServersOver(pls) ==
    { [pages |-> p, total |-> t, failAt |-> 0, failKind |-> "http"] :
        p \in pls, t \in 0..MaxTotal }
    \cup
    { [pages |-> p, total |-> MaxTotal, failAt |-> f, failKind |-> k] :
        p \in pls, f \in 1..MaxFailPage, k \in {"http", "throw"} }
\* the remote that answers every run alike: all listings, no failure
SteadyServer ==
    [pages |-> << <<ListingEnvision>>, <<ListingRepeat, ListingBare>> >>,
     total |-> MaxTotal, failAt |-> 0, failKind |-> "http"]
\* the steady remote of a region where the club of 3AM Anniversary lists
EnrichServer ==
    [pages |-> << <<ListingEnvision>>, <<ListingKoko, ListingBare>> >>,
     total |-> MaxTotal, failAt |-> 0, failKind |-> "http"]
\* against the other scripts the remote declares the largest total
Servers(w) ==
    IF w = "pair" THEN {SteadyServer}
    ELSE IF w = "enrich" THEN {EnrichServer}
    ELSE IF w \in {"ingest", "rescrape"}
    THEN {srv \in ServersOver(PageListsIngest) : srv.total = MaxTotal}
    ELSE ServersOver(IF w = "outage" THEN PageListsLong ELSE PageLists)

\* the response of server srv to the request for page p
Response(srv, p) ==
    IF p = srv.failAt THEN [kind |-> srv.failKind, data |-> <<>>, totalResults |-> 0]
    ELSE [kind |-> "ok",
          data |-> IF p <= Len(srv.pages) THEN srv.pages[p] ELSE <<>>,
          totalResults |-> srv.total]

\* the name of the i-th configured region
AreaName(i) == <<"R", Digits[i + 1]>>

\* ------------------------------------------------------------------- state
VARIABLES
    venues, artists, festivals, festivalLineups, scrapeLogs,
    pc, targetAreas, ri, totalFestivals, totalArtists,
    festivalsFound, artistsFound, errors, listings, li, ai,
    venueId, festivalId, artistId,
    server, page, allEvents, fetchThrew, fetchTrace,
    faultsLeft, world,
    texts, slugs,
    procs, overlapped,
    prog, data, lastLink,
    calls, ops, callHist, lastWrite, logsAtStart

storeVars == <<venues, artists, festivals, festivalLineups, scrapeLogs>>
mainVars == <<targetAreas, ri, totalFestivals, totalArtists>>
syncVars == <<festivalsFound, artistsFound, errors, listings, li, ai,
              venueId, festivalId, artistId>>
fetchVars == <<server, page, allEvents, fetchThrew, fetchTrace>>
slugVars == <<texts, slugs>>
raceVars == <<procs, overlapped>>
envVars == <<faultsLeft, world, slugVars, raceVars>>
progVars == <<prog, data>>
histVars == <<calls, ops, callHist, lastWrite, logsAtStart>>
vars == <<storeVars, pc, mainVars, syncVars, fetchVars, envVars, progVars,
          lastLink, histVars>>

NoServer == [pages |-> <<>>, total |-> 0, failAt |-> 0, failKind |-> "http"]
NoData == [name |-> <<>>, startDate |-> "", artistNames |-> <<>>]
\* the outcome of the latest lineup insert: which script issued it, whether the
\* pair was already linked, whether the call rejected, whether a row was added
\* and whether an error message was recorded
NoLink == [site |-> "none", dup |-> FALSE, threw |-> FALSE, grew |-> FALSE,
           recorded |-> FALSE]

InitCommon ==
    /\ venues = <<>> /\ artists = <<>> /\ festivals = <<>>
    /\ festivalLineups = <<>> /\ scrapeLogs = <<>>
    /\ pc = "idle"
    /\ targetAreas = <<>> /\ ri = 1 /\ totalFestivals = 0 /\ totalArtists = 0
    /\ festivalsFound = 0 /\ artistsFound = 0 /\ errors = <<>>
    /\ listings = <<>> /\ li = 1 /\ ai = 1
    /\ venueId = Null /\ festivalId = Null /\ artistId = Null
    /\ server = NoServer /\ page = 1 /\ allEvents = <<>>
    /\ fetchThrew = FALSE /\ fetchTrace = <<>>
    /\ prog = "none" /\ data = NoData /\ lastLink = NoLink
    /\ calls = 0 /\ ops = <<>> /\ callHist = <<>>
    /\ lastWrite = "none" /\ logsAtStart = 0

\* no second process at work
NoRace == procs = <<>> /\ overlapped = FALSE
\* no slugify call under study
NoSlugRun == texts = <<>> /\ slugs = <<>>

Init == InitCommon /\ NoSlugRun /\ NoRace /\ faultsLeft = MaxFaults /\ world = "sync"
InitOutage == InitCommon /\ NoSlugRun /\ NoRace /\ faultsLeft = MaxBurst /\ world = "outage"
\* all four scripts against a healthy store
InitIngest == InitCommon /\ NoSlugRun /\ NoRace /\ faultsLeft = 0 /\ world = "ingest"
\* sync and scrape-extra in turn, a healthy store, one steady remote
InitPair == InitCommon /\ NoSlugRun /\ NoRace /\ faultsLeft = 0 /\ world = "pair"
\* scrape-extra's main alone, against a store that may reject calls
InitRescrape == InitCommon /\ NoSlugRun /\ NoRace /\ faultsLeft = MaxFaults /\ world = "rescrape"
\* sync, scrape-extra and manual-enrich in turn, a healthy store
InitEnrich == InitCommon /\ NoSlugRun /\ NoRace /\ faultsLeft = 0 /\ world = "enrich"
\* a healthy store and insertEvent alone
InitEvents == InitCommon /\ NoSlugRun /\ NoRace /\ faultsLeft = 0 /\ world = "events"
\* sync against a healthy store, its process liable to be terminated
InitRecovery == InitCommon /\ NoSlugRun /\ NoRace /\ faultsLeft = 0 /\ world = "recovery"

\* ------------------------------------------------------------ store faults
\* an awaited store call succeeds (TRUE) or rejects (FALSE)
FaultOutcomes == IF faultsLeft > 0 THEN {TRUE, FALSE} ELSE {TRUE}
\* scattered faults draw on a budget; an outage is one contiguous burst
FaultsAfter(ok) ==
    IF ~ok THEN faultsLeft - 1
    ELSE IF world = "outage" /\ faultsLeft < MaxBurst THEN 0 ELSE faultsLeft
StoreDown == <<"d","o","w","n">>
DuplicateKey == <<"d","u","p">>
FetchFailed == <<"f","e","t","c","h">>

\* ------------------------------------------------------------- store rows
\* .where(eq(venues.name, v.name))
FindVenueMiss(name) == {}
\* (were the name compared without regard to case)
FindVenueIgnoreCase(name) ==
    {i \in DOMAIN venues :
        [k \in DOMAIN venues[i].name |-> toLowerCase(venues[i].name[k])]
            = [k \in DOMAIN name |-> toLowerCase(name[k])]}
FindVenue(name) == {i \in DOMAIN venues : venues[i].name = name}
\* .where(eq(artists.slug, slug))
FindArtist(slug) == {i \in DOMAIN artists : artists[i].slug = slug}
\* .where(eq(festivals.slug, slug))
FindFestival(slug) == {i \in DOMAIN festivals : festivals[i].slug = slug}

\* (were the venue stored without its area)
VenueRowNameOnly(event) == [name |-> event.venue.name, city |-> <<>>]
VenueRow(event) == [name |-> event.venue.name, city |-> event.venue.city]
ArtistRow(name) == [name |-> name, slug |-> slugify(name)]
FestivalRow(event, vId) ==
    [name |-> event.title, slug |-> FestivalSlug(event), startDate |-> event.date,
     venueId |-> vId, attending |-> event.attending]
LineupRow(fId, aId, event) ==
    [festivalId |-> fId, artistId |-> aId, performanceDate |-> event.date]

\* the unique index unique_lineup on (festivalId, artistId)
LineupConflict(rows, row) ==
    \E i \in DOMAIN rows :
        rows[i].festivalId = row.festivalId /\ rows[i].artistId = row.artistId
\* db.insert(festivalLineups).values(row).onConflictDoNothing()
\* (a plain insert is rejected by the unique index when the pair exists)
InsertLineupPlain(rows, row) ==
    [rows |-> IF LineupConflict(rows, row) THEN rows ELSE Append(rows, row),
     threw |-> LineupConflict(rows, row)]
InsertLineup(rows, row) ==
    [rows |-> IF LineupConflict(rows, row) THEN rows ELSE Append(rows, row),
     threw |-> FALSE]

\* ------------------------------------------------------------- error list
ArtistError(name, msg) == [scope |-> "Artist", name |-> name, message |-> msg]
EventError(title, msg) == [scope |-> "Event", name |-> title, message |-> msg]
AreaError(area, msg) == [scope |-> "Area", name |-> area, message |-> msg]

ErrorCap == 20
Min(a, b) == IF a <= b THEN a ELSE b
\* errors.slice(0, 20)
CapErrorsNewest(errs) ==
    SubSeq(errs, Len(errs) - Min(Len(errs), ErrorCap) + 1, Len(errs))
CapErrors(errs) == SubSeq(errs, 1, Min(Len(errs), ErrorCap))
\* errors.length > 0 ? "partial" : "success"
LogStatusLenient(errs) == IF Len(errs) > 1 THEN "partial" ELSE "success"
LogStatus(errs) == IF Len(errs) > 0 THEN "partial" ELSE "success"
LogRow(found, slots, errs) ==
    [status |-> LogStatus(errs), festivalsFound |-> found,
     artistsFound |-> slots, errors |-> CapErrors(errs)]

\* --------------------------------------------------------- control points
\* (were the festival upserted without the venue upsert before it)
ListingHeadSkipsVenue(ls, i) ==
    IF i <= Len(ls) THEN [pc |-> "festival", li |-> i, ai |-> 1]
    ELSE [pc |-> "log", li |-> i, ai |-> 1]
\* for (const listing of listings): the next listing, or the run log
ListingHead(ls, i) ==
    IF i <= Len(ls) THEN [pc |-> "venue", li |-> i, ai |-> 1]
    ELSE [pc |-> "log", li |-> i, ai |-> 1]
\* for (const artist of event.artists || []): the next artist, or the next listing
ArtistHead(ls, i, a) ==
    IF a <= Len(ls[i].artists) THEN [pc |-> "artist", li |-> i, ai |-> a]
    ELSE ListingHead(ls, i + 1)
\* where control continues after the inner catch
ArtistCatchAbort(ls, i, a) == ListingHead(ls, i + 1)
ArtistCatchTarget(ls, i, a) == ArtistHead(ls, i, a + 1)
\* where control continues after the per-listing catch
ListingCatchAbort(ls, i) == [pc |-> "log", li |-> i, ai |-> 1]
ListingCatchTarget(ls, i) == ListingHead(ls, i + 1)
\* db.insert(scrapeLogs).values(row)
InsertLogNone(rows, row) == rows
InsertLog(rows, row) == Append(rows, row)
\* allEvents.length >= json.data.eventListings.totalResults
ReachedTotalStrict(n, total) == n > total
ReachedTotal(n, total) == n >= total
\* allEvents.push(...listings)
PushReplace(acc, items) == items
Push(acc, items) == acc \o items

Goto(pos) == pc' = pos.pc /\ li' = pos.li /\ ai' = pos.ai

Op(name, ok) == [op |-> name, li |-> li, ai |-> IF pc \in {"artist", "link"} THEN ai ELSE 0, ok |-> ok]

\* ------------------------------------------------------------------- main
\* syncArea calls explored: an outage, and a re-scrape meeting store
\* faults, are followed through one call
CallLimit == IF world \in {"outage", "rescrape"} THEN 1 ELSE MaxCalls

\* the scheduler starts the entry point with targetAreas configured
StartMain ==
    /\ pc \in {"idle", "exited", "crashed"}
    /\ \E n \in 1..MaxRegions :
         /\ calls + n <= CallLimit
         /\ targetAreas' = [i \in 1..n |-> AreaName(i)]
    /\ ri' = 1 /\ totalFestivals' = 0 /\ totalArtists' = 0
    /\ logsAtStart' = Len(scrapeLogs) /\ lastWrite' = "none"
    /\ festivalsFound' = 0 /\ artistsFound' = 0 /\ errors' = <<>>
    /\ listings' = <<>> /\ li' = 1 /\ ai' = 1
    /\ venueId' = Null /\ festivalId' = Null /\ artistId' = Null
    /\ fetchThrew' = FALSE /\ page' = 1 /\ ops' = <<>>
    /\ prog' = "sync" /\ data' = NoData /\ lastLink' = NoLink
    /\ pc' = "region"
    /\ UNCHANGED <<storeVars, server, allEvents, fetchTrace, envVars, calls, callHist>>

\* for (const [name, id] of targetAreas): syncArea starts and calls fetchRAEvents
CallSyncArea ==
    /\ pc = "region" /\ ri <= Len(targetAreas)
    /\ festivalsFound' = 0 /\ artistsFound' = 0 /\ errors' = <<>>
    /\ listings' = <<>> /\ li' = 1 /\ ai' = 1
    /\ venueId' = Null /\ festivalId' = Null /\ artistId' = Null
    /\ \E srv \in Servers(world) : server' = srv
    /\ page' = 1 /\ allEvents' = <<>> /\ fetchThrew' = FALSE /\ fetchTrace' = <<>>
    /\ calls' = calls + 1 /\ ops' = <<>>
    /\ lastLink' = NoLink
    /\ pc' = "fetch"
    /\ UNCHANGED <<storeVars, mainVars, progVars, envVars, callHist, lastWrite,
                   logsAtStart>>

\* main().catch(console.error): a rejection of main is handed to
\* console.error, which prints it; nothing sets process.exitCode or calls
\* process.exit, so the process ends with code 0 however main ended
ExitCode(ended) ==
    CASE ended = "exited" -> 0
      [] ended = "crashed" -> 0

\* the loop over targetAreas is over: main resolves
MainDone ==
    /\ pc = "region" /\ ri > Len(targetAreas)
    /\ pc' = "exited"
    /\ UNCHANGED <<storeVars, mainVars, progVars, lastLink, syncVars, fetchVars, envVars, histVars>>

\* ---------------------------------------------------------- fetchRAEvents
Requested ==
    Append(fetchTrace, [ev |-> "request", page |-> page, have |-> Len(allEvents)])

\* await fetch(...) or await res.json() rejects
FetchThrows ==
    /\ pc = "fetch" /\ Response(server, page).kind = "throw"
    /\ fetchTrace' = Requested /\ fetchThrew' = TRUE
    /\ pc' = "fetched"
    /\ UNCHANGED <<storeVars, mainVars, progVars, lastLink, syncVars, server, page, allEvents,
                   envVars, histVars>>

\* (were a non-success response thrown instead of breaking out of the loop)
FetchNotOkThrows ==
    /\ pc = "fetch" /\ Response(server, page).kind = "http"
    /\ fetchTrace' = Requested /\ fetchThrew' = TRUE
    /\ pc' = "fetched"
    /\ UNCHANGED <<storeVars, mainVars, progVars, lastLink, syncVars, server, page,
                   allEvents, envVars, histVars>>
\* if (!res.ok) break
FetchNotOk ==
    /\ pc = "fetch" /\ Response(server, page).kind = "http"
    /\ fetchTrace' = Requested
    /\ pc' = "fetched"
    /\ UNCHANGED <<storeVars, mainVars, progVars, lastLink, syncVars, server, page, allEvents,
                   fetchThrew, envVars, histVars>>

\* if (!listings || listings.length === 0) break
FetchEmptyPage ==
    /\ pc = "fetch" /\ Response(server, page).kind = "ok"
    /\ Response(server, page).data = <<>>
    /\ fetchTrace' = Requested
    /\ pc' = "fetched"
    /\ UNCHANGED <<storeVars, mainVars, progVars, lastLink, syncVars, server, page, allEvents,
                   fetchThrew, envVars, histVars>>

\* allEvents.push(...listings); break on the declared total, else page++
FetchPage ==
    /\ pc = "fetch" /\ Response(server, page).kind = "ok"
    /\ Response(server, page).data # <<>>
    /\ fetchTrace' = Requested
    /\ allEvents' = Push(allEvents, Response(server, page).data)
    /\ IF ReachedTotal(Len(allEvents'), Response(server, page).totalResults)
       THEN pc' = "fetched" /\ page' = page
       ELSE pc' = "delay" /\ page' = page + 1
    /\ UNCHANGED <<storeVars, mainVars, progVars, lastLink, syncVars, server, fetchThrew,
                   envVars, histVars>>

\* (were the delay awaited twice)
FetchDelayTwice ==
    /\ pc = "delay"
    /\ fetchTrace' =
         fetchTrace \o << [ev |-> "delay", page |-> page, have |-> Len(allEvents)],
                          [ev |-> "delay", page |-> page, have |-> Len(allEvents)] >>
    /\ pc' = "fetch"
    /\ UNCHANGED <<storeVars, mainVars, progVars, lastLink, syncVars, server, page,
                   allEvents, fetchThrew, envVars, histVars>>
\* await new Promise((r) => setTimeout(r, 1500))
FetchDelay ==
    /\ pc = "delay"
    /\ fetchTrace' =
         Append(fetchTrace, [ev |-> "delay", page |-> page, have |-> Len(allEvents)])
    /\ pc' = "fetch"
    /\ UNCHANGED <<storeVars, mainVars, progVars, lastLink, syncVars, server, page, allEvents,
                   fetchThrew, envVars, histVars>>

ClearFetch ==
    server' = NoServer /\ page' = 1 /\ allEvents' = <<>> /\ fetchTrace' = <<>>

\* const listings = await fetchRAEvents(...): the for loop starts
FetchReturned ==
    /\ pc = "fetched" /\ prog = "sync" /\ ~fetchThrew
    /\ listings' = allEvents
    /\ Goto(ListingHead(allEvents, 1))
    /\ ClearFetch
    /\ UNCHANGED <<storeVars, mainVars, progVars, lastLink, festivalsFound, artistsFound, errors,
                   venueId, festivalId, artistId, fetchThrew, envVars, histVars>>

\* no catch around fetchRAEvents: the rejection leaves syncArea and main
FetchRejectedUncaught ==
    /\ pc = "fetched" /\ prog = "sync" /\ fetchThrew
    /\ pc' = "crashed"
    /\ server' = NoServer /\ allEvents' = <<>> /\ fetchTrace' = <<>>
    /\ UNCHANGED <<storeVars, mainVars, progVars, lastLink, syncVars, page, fetchThrew, envVars, histVars>>
\* catch (err) { errors.push(`Area ${areaName}: ${err.message}`) }
FetchRejected ==
    /\ pc = "fetched" /\ prog = "sync" /\ fetchThrew
    /\ errors' = Append(errors, AreaError(targetAreas[ri], FetchFailed))
    /\ pc' = "log"
    /\ server' = NoServer /\ allEvents' = <<>> /\ fetchTrace' = <<>>
    /\ UNCHANGED page
    /\ UNCHANGED <<storeVars, mainVars, progVars, lastLink, festivalsFound, artistsFound, listings,
                   li, ai, venueId, festivalId, artistId, fetchThrew, envVars,
                   histVars>>

\* --------------------------------------------------------------- syncArea
Event == listings[li]

\* catch (err) { errors.push(`Event ${listing.event?.title}: ${err.message}`) }
ListingCatch(msg) ==
    /\ errors' = Append(errors, EventError(Event.title, msg))
    /\ Goto(ListingCatchTarget(listings, li))
    /\ venueId' = Null /\ festivalId' = Null /\ artistId' = Null
    /\ UNCHANGED <<festivalsFound, artistsFound, listings>>

\* (were the artist's error swallowed without a message)
ArtistCatchSilent(msg) ==
    /\ errors' = errors
    /\ Goto(ArtistCatchTarget(listings, li, ai))
    /\ artistId' = Null
    /\ UNCHANGED <<festivalsFound, listings, venueId, festivalId>>

\* catch (err) { errors.push(`Artist ${artist.name}: ${err.message}`) }
ArtistCatch(msg) ==
    /\ errors' = Append(errors, ArtistError(Event.artists[ai], msg))
    /\ Goto(ArtistCatchTarget(listings, li, ai))
    /\ artistId' = Null
    /\ UNCHANGED <<festivalsFound, listings, venueId, festivalId>>

\* (were a listing without a venue dropped)
UpsertVenueNoneDropsListing ==
    /\ pc = "venue" /\ Event.venue.name = <<>>
    /\ venueId' = Null
    /\ Goto(ListingHead(listings, li + 1))
    /\ UNCHANGED <<storeVars, mainVars, progVars, lastLink, festivalsFound, artistsFound, errors,
                   listings, festivalId, artistId, fetchVars, envVars,
                   histVars>>

\* upsertVenue: if (!v?.name) return null
UpsertVenueNone ==
    /\ pc = "venue" /\ Event.venue.name = <<>>
    /\ venueId' = Null
    /\ pc' = "festival"
    /\ UNCHANGED <<storeVars, mainVars, progVars, lastLink, festivalsFound, artistsFound, errors,
                   listings, li, ai, festivalId, artistId, fetchVars, envVars,
                   histVars>>

\* upsertVenue: select by name; return the existing id, or go on to insert
UpsertVenueSelect ==
    /\ pc = "venue" /\ Event.venue.name # <<>>
    /\ \E ok \in FaultOutcomes :
         /\ faultsLeft' = FaultsAfter(ok)
         /\ ops' = Append(ops, Op("venue.select", ok))
         /\ IF ~ok THEN ListingCatch(StoreDown) /\ UNCHANGED artistsFound
            ELSE /\ IF FindVenue(Event.venue.name) # {}
                    THEN /\ \E id \in FindVenue(Event.venue.name) : venueId' = id
                         /\ pc' = "festival"
                    ELSE venueId' = Null /\ pc' = "venueIns"
                 /\ UNCHANGED <<festivalsFound, artistsFound, errors, listings,
                                li, ai, festivalId, artistId>>
    /\ UNCHANGED <<storeVars, mainVars, progVars, lastLink, fetchVars, world, slugVars, raceVars, calls, callHist,
                   lastWrite, logsAtStart>>

\* upsertVenue: insert the venue row, returning its id
UpsertVenueInsert ==
    /\ pc = "venueIns"
    /\ \E ok \in FaultOutcomes :
         /\ faultsLeft' = FaultsAfter(ok)
         /\ ops' = Append(ops, Op("venue.insert", ok))
         /\ IF ~ok
            THEN ListingCatch(StoreDown) /\ UNCHANGED <<venues, lastWrite>>
            ELSE /\ venues' = Append(venues, VenueRow(Event))
                 /\ venueId' = Len(venues) + 1
                 /\ lastWrite' = "venue"
                 /\ pc' = "festival"
                 /\ UNCHANGED <<festivalsFound, artistsFound, errors, listings,
                                li, ai, festivalId, artistId>>
    /\ UNCHANGED <<artists, festivals, festivalLineups, scrapeLogs, mainVars, progVars, lastLink,
                   fetchVars, world, slugVars, raceVars, calls, callHist, logsAtStart>>

\* (were a listing whose festival exists skipped, artists included)
AfterFestivalSkipFound(found, ls, i) ==
    IF found THEN ListingHead(ls, i + 1) ELSE ArtistHead(ls, i, 1)
\* after upsertFestival returned, found or inserted: the artist loop
AfterFestival(found, ls, i) == ArtistHead(ls, i, 1)

\* (were the row found by its key overwritten with the listing's data)
OverwriteExisting(rows, id, row) == [rows EXCEPT ![id] = row]
\* if (existing.length > 0) return existing[0].id
KeepExisting(rows, id, row) == rows

\* upsertFestival(event, venueId); festivalsFound++
UpsertFestival ==
    /\ pc = "festival"
    /\ \E ok \in FaultOutcomes :
         /\ faultsLeft' = FaultsAfter(ok)
         /\ ops' = Append(ops, Op("festival.upsert", ok))
         /\ IF ~ok
            THEN ListingCatch(StoreDown) /\ UNCHANGED <<festivals, lastWrite>>
            ELSE /\ IF FindFestival(FestivalSlug(Event)) # {}
                    THEN /\ \E id \in FindFestival(FestivalSlug(Event)) :
                              /\ festivalId' = id
                              /\ festivals' = KeepExisting(festivals, id,
                                                  FestivalRow(Event, venueId))
                         /\ UNCHANGED lastWrite
                    ELSE /\ festivals' = Append(festivals, FestivalRow(Event, venueId))
                         /\ festivalId' = Len(festivals) + 1
                         /\ lastWrite' = "festival"
                 /\ festivalsFound' = festivalsFound + 1
                 /\ Goto(AfterFestival(FindFestival(FestivalSlug(Event)) # {},
                                       listings, li))
                 /\ UNCHANGED <<artistsFound, errors, listings, venueId, artistId>>
    /\ UNCHANGED <<venues, artists, festivalLineups, scrapeLogs, mainVars, progVars, lastLink,
                   fetchVars, world, slugVars, raceVars, calls, callHist, logsAtStart>>

\* upsertArtist(artist); artistsFound++
UpsertArtist ==
    /\ pc = "artist"
    /\ \E ok \in FaultOutcomes :
         /\ faultsLeft' = FaultsAfter(ok)
         /\ ops' = Append(ops, Op("artist.upsert", ok))
         /\ IF ~ok
            THEN ArtistCatch(StoreDown) /\ UNCHANGED <<artists, lastWrite, artistsFound>>
            ELSE /\ IF FindArtist(slugify(Event.artists[ai])) # {}
                    THEN /\ \E id \in FindArtist(slugify(Event.artists[ai])) :
                              artistId' = id
                         /\ UNCHANGED <<artists, lastWrite>>
                    ELSE /\ artists' = Append(artists, ArtistRow(Event.artists[ai]))
                         /\ artistId' = Len(artists) + 1
                         /\ lastWrite' = "artist"
                 /\ artistsFound' = artistsFound + 1
                 /\ pc' = "link"
                 /\ UNCHANGED <<festivalsFound, errors, listings, li, ai, venueId,
                                festivalId>>
    /\ UNCHANGED <<venues, festivals, festivalLineups, scrapeLogs, mainVars, progVars, lastLink,
                   fetchVars, world, slugVars, raceVars, calls, callHist, logsAtStart>>

\* db.insert(festivalLineups).values({...}).onConflictDoNothing()
LinkLineup ==
    /\ pc = "link"
    /\ \E ok \in FaultOutcomes :
         LET row == LineupRow(festivalId, artistId, Event)
             res == InsertLineup(festivalLineups, row)
             done == ok /\ ~res.threw
         IN  /\ faultsLeft' = FaultsAfter(ok)
             /\ ops' = Append(ops, Op("lineup.insert", done))
             /\ IF ~done
                THEN ArtistCatch(IF ok THEN DuplicateKey ELSE StoreDown)
                     /\ UNCHANGED <<festivalLineups, lastWrite, artistsFound>>
                ELSE /\ festivalLineups' = res.rows
                     /\ lastWrite' = IF festivalLineups' # festivalLineups
                                     THEN "lineup" ELSE lastWrite
                     /\ Goto(ArtistHead(listings, li, ai + 1))
                     /\ artistId' = Null
                     /\ UNCHANGED <<festivalsFound, artistsFound, errors, listings,
                                    venueId, festivalId>>
             /\ lastLink' = [site |-> "sync",
                             dup |-> LineupConflict(festivalLineups, row),
                             threw |-> ~done,
                             grew |-> Len(festivalLineups') # Len(festivalLineups),
                             recorded |-> Len(errors') # Len(errors)]
    /\ UNCHANGED <<venues, artists, festivals, scrapeLogs, mainVars, progVars,
                   fetchVars, world, slugVars, raceVars, calls, callHist, logsAtStart>>

\* the record kept of the last two completed syncArea calls
LastTwo(h) == IF Len(h) > 2 THEN Tail(h) ELSE h

TableCounts ==
    [venues |-> Len(venues), artists |-> Len(artists),
     festivals |-> Len(festivals), lineups |-> Len(festivalLineups)]

\* await db.insert(scrapeLogs).values({...}); return to main, which adds totals
WriteLog ==
    /\ pc = "log"
    /\ \E ok \in FaultOutcomes :
         /\ faultsLeft' = FaultsAfter(ok)
         /\ ops' = Append(ops, Op("log.insert", ok))
         /\ IF ~ok
            THEN /\ pc' = "crashed"
                 /\ UNCHANGED <<scrapeLogs, lastWrite, callHist, ri,
                                totalFestivals, totalArtists>>
            ELSE /\ scrapeLogs' =
                        InsertLog(scrapeLogs, LogRow(festivalsFound, artistsFound, errors))
                 /\ lastWrite' = "log"
                 /\ callHist' = LastTwo(Append(callHist,
                        [call |-> calls, listings |-> listings, threw |-> fetchThrew,
                         page |-> page,
                         clean |-> \A k \in DOMAIN ops : ops[k].ok,
                         killed |-> FALSE,
                         counts |-> TableCounts]))
                 /\ totalFestivals' = totalFestivals + festivalsFound
                 /\ totalArtists' = totalArtists + artistsFound
                 /\ ri' = ri + 1
                 /\ pc' = "region"
    /\ UNCHANGED <<venues, artists, festivals, festivalLineups, targetAreas,
                   syncVars, fetchVars, world, slugVars, raceVars, progVars, lastLink, calls,
                   logsAtStart>>

\* the process is terminated while a listing is being processed: nothing
\* more is written, no run-log row either
Terminate ==
    /\ world = "recovery"
    /\ pc \in {"venue", "venueIns", "festival", "artist", "link"}
    /\ pc' = "crashed"
    /\ callHist' = LastTwo(Append(callHist,
           [call |-> calls, listings |-> listings, threw |-> fetchThrew,
            page |-> page, clean |-> \A k \in DOMAIN ops : ops[k].ok,
            killed |-> TRUE, counts |-> TableCounts]))
    /\ UNCHANGED <<storeVars, mainVars, syncVars, fetchVars, envVars, progVars,
                   lastLink, calls, ops, lastWrite, logsAtStart>>

Next ==
    \/ StartMain \/ CallSyncArea \/ MainDone
    \/ FetchThrows \/ FetchNotOk \/ FetchEmptyPage \/ FetchPage \/ FetchDelay
    \/ FetchReturned \/ FetchRejected
    \/ UpsertVenueNone \/ UpsertVenueSelect \/ UpsertVenueInsert
    \/ UpsertFestival \/ UpsertArtist \/ LinkLineup \/ WriteLog

Spec == Init /\ [][Next]_vars
SpecOutage == InitOutage /\ [][Next]_vars
NextRecovery == Next \/ Terminate
SpecRecovery == InitRecovery /\ [][NextRecovery]_vars

\* =========================================================== other scripts
\* what a step of the other scripts leaves alone
scriptFrame ==
    <<mainVars, fetchVars, world, slugVars, raceVars, progVars, calls, ops, callHist, logsAtStart>>

\* the scheduler starts one of the other scripts
StartScript(p, d, at) ==
    /\ calls + 1 <= CallLimit
    /\ calls' = calls + 1 /\ prog' = p /\ data' = d /\ pc' = at
    /\ targetAreas' = <<>> /\ ri' = 1 /\ totalFestivals' = 0 /\ totalArtists' = 0
    /\ festivalsFound' = 0 /\ artistsFound' = 0 /\ errors' = <<>>
    /\ listings' = <<>> /\ li' = 1 /\ ai' = 1
    /\ venueId' = Null /\ festivalId' = Null /\ artistId' = Null
    /\ fetchThrew' = FALSE /\ page' = 1 /\ ops' = <<>>
    /\ lastLink' = NoLink /\ lastWrite' = "none" /\ logsAtStart' = Len(scrapeLogs)
    /\ UNCHANGED <<storeVars, server, allEvents, fetchTrace, envVars, callHist>>

\* the outcome record of a lineup insert issued by script p
LinkOutcome(p, row, res, done) ==
    [site |-> p, dup |-> LineupConflict(festivalLineups, row), threw |-> ~done,
     grew |-> done /\ Len(res.rows) # Len(festivalLineups), recorded |-> FALSE]

\* ---------------------------------------------------------- scrape-extra.ts
\* (were the text not lower-cased)
slugifyKeepCase(text) == TrimHyphens(ReplaceNonAlnum(text))
slugifyExtra(text) ==
    TrimHyphens(ReplaceNonAlnum([i \in DOMAIN text |-> toLowerCase(text[i])]))

\* eventExists(name): a festival with slug slugify(name), or one whose name
\* contains the first 20 characters of name
eventExists(name) ==
    \/ FindFestival(slugifyExtra(name)) # {}
    \/ \E i \in DOMAIN festivals :
          ilike(festivals[i].name, Containing(Substring20(name)))

\* slugify(event.title) + `-${event.id}`
RescrapeSlug(event) == slugifyExtra(event.title) \o <<"-">> \o event.id
RescrapeFestivalRow(event, vId) ==
    [name |-> event.title, slug |-> RescrapeSlug(event), startDate |-> event.date,
     venueId |-> vId, attending |-> event.attending]
RescrapeArtistRow(name) == [name |-> name, slug |-> slugifyExtra(name)]
\* status: "success", errors: [] whatever happened
RescrapeLogRow(newEvents, newArtists) ==
    [status |-> "success", festivalsFound |-> newEvents,
     artistsFound |-> newArtists, errors |-> <<>>]
ExtraVenueRow(name, city) == [name |-> name, city |-> city]
InsertEventRow(d, vId) ==
    [name |-> d.name, slug |-> EventSlug(d.name), startDate |-> d.startDate,
     venueId |-> vId, attending |-> Null]

\* for (const listing of listings) in rescrapeRA
RescrapeListingHead(ls, i) ==
    IF i <= Len(ls) THEN [pc |-> "rs.check", li |-> i, ai |-> 1]
    ELSE [pc |-> "rs.log", li |-> i, ai |-> 1]
\* for (const artist of event.artists || []) in rescrapeRA
RescrapeArtistHead(ls, i, a) ==
    IF a <= Len(ls[i].artists) THEN [pc |-> "rs.artist", li |-> i, ai |-> a]
    ELSE RescrapeListingHead(ls, i + 1)
\* for (const artistName of data.artistNames) in insertEvent
InsertEventArtistHead(d, a) ==
    IF a <= Len(d.artistNames) THEN [pc |-> "ie.artist", li |-> 1, ai |-> a]
    ELSE [pc |-> "exited", li |-> 1, ai |-> a]

StartExtra ==
    /\ pc \in {"idle", "exited", "crashed"}
    /\ world \in {"ingest", "rescrape", "pair", "enrich"}
    /\ StartScript("extra", NoData, "x.3am")

\* main: scrapeEventbrite, scrape3AM (one eventExists call, its answer only
\* printed), scrapeSongkick; then rescrapeRA calls fetchRAEvents
Scrape3AM ==
    /\ pc = "x.3am"
    /\ \E ok \in FaultOutcomes :
         /\ faultsLeft' = FaultsAfter(ok)
         /\ IF ~ok
            THEN pc' = "crashed" /\ UNCHANGED fetchVars
            ELSE /\ eventExists(ThreeAmAnniversary) \in BOOLEAN
                 /\ \E srv \in Servers(world) : server' = srv
                 /\ page' = 1 /\ allEvents' = <<>> /\ fetchThrew' = FALSE
                 /\ fetchTrace' = <<>>
                 /\ pc' = "fetch"
    /\ UNCHANGED <<storeVars, mainVars, syncVars, world, slugVars, raceVars, progVars, lastLink,
                   histVars>>

\* const listings = await fetchRAEvents(26, ...): the for loop starts
RescrapeFetchReturned ==
    /\ pc = "fetched" /\ prog = "extra" /\ ~fetchThrew
    /\ listings' = allEvents
    /\ Goto(RescrapeListingHead(allEvents, 1))
    /\ ClearFetch
    /\ UNCHANGED <<storeVars, mainVars, festivalsFound, artistsFound, errors,
                   venueId, festivalId, artistId, fetchThrew, envVars, progVars,
                   lastLink, histVars>>

\* catch (err) { console.error(...) }: on to the run log
RescrapeFetchRejected ==
    /\ pc = "fetched" /\ prog = "extra" /\ fetchThrew
    /\ pc' = "rs.log"
    /\ server' = NoServer /\ allEvents' = <<>> /\ fetchTrace' = <<>>
    /\ UNCHANGED <<storeVars, mainVars, syncVars, page, fetchThrew, envVars,
                   progVars, lastLink, histVars>>

\* select by slug; if (existing.length > 0) continue
RescrapeCheck ==
    /\ pc = "rs.check"
    /\ \E ok \in FaultOutcomes :
         /\ faultsLeft' = FaultsAfter(ok)
         /\ IF ~ok THEN pc' = "rs.log" /\ UNCHANGED <<li, ai>>
            ELSE IF FindFestival(RescrapeSlug(Event)) # {}
            THEN Goto(RescrapeListingHead(listings, li + 1))
            ELSE /\ pc' = IF Event.venue.name # <<>> THEN "rs.venue" ELSE "rs.festival"
                 /\ UNCHANGED <<li, ai>>
    /\ venueId' = Null /\ festivalId' = Null /\ artistId' = Null
    /\ UNCHANGED <<storeVars, festivalsFound, artistsFound, errors, listings,
                   lastLink, lastWrite, scriptFrame>>

\* upsertVenue(name, city): select by name, insert when absent
RescrapeUpsertVenue ==
    /\ pc = "rs.venue"
    /\ \E ok \in FaultOutcomes :
         /\ faultsLeft' = FaultsAfter(ok)
         /\ IF ~ok THEN pc' = "rs.log" /\ UNCHANGED <<venues, venueId, lastWrite>>
            ELSE /\ IF FindVenue(Event.venue.name) # {}
                    THEN /\ \E id \in FindVenue(Event.venue.name) : venueId' = id
                         /\ UNCHANGED <<venues, lastWrite>>
                    ELSE /\ venues' = Append(venues,
                               ExtraVenueRow(Event.venue.name, Event.venue.city))
                         /\ venueId' = Len(venues) + 1
                         /\ lastWrite' = "venue"
                 /\ pc' = "rs.festival"
    /\ UNCHANGED <<artists, festivals, festivalLineups, scrapeLogs, festivalsFound,
                   artistsFound, errors, listings, li, ai, festivalId, artistId,
                   lastLink, scriptFrame>>

\* db.insert(festivals), rejected by the unique slug if it exists; newEvents++
RescrapeInsertFestival ==
    /\ pc = "rs.festival"
    /\ \E ok \in FaultOutcomes :
         /\ faultsLeft' = FaultsAfter(ok)
         /\ IF ~ok \/ FindFestival(RescrapeSlug(Event)) # {}
            THEN /\ pc' = "rs.log"
                 /\ UNCHANGED <<festivals, festivalId, festivalsFound, li, ai,
                                lastWrite>>
            ELSE /\ festivals' = Append(festivals, RescrapeFestivalRow(Event, venueId))
                 /\ festivalId' = Len(festivals) + 1
                 /\ festivalsFound' = festivalsFound + 1
                 /\ lastWrite' = "festival"
                 /\ Goto(RescrapeArtistHead(listings, li, 1))
    /\ UNCHANGED <<venues, artists, festivalLineups, scrapeLogs, artistsFound,
                   errors, listings, venueId, artistId, lastLink, scriptFrame>>

\* select the artist by slug, insert when absent (newArtists++)
RescrapeUpsertArtist ==
    /\ pc = "rs.artist"
    /\ \E ok \in FaultOutcomes :
         /\ faultsLeft' = FaultsAfter(ok)
         /\ IF ~ok
            THEN /\ pc' = "rs.log"
                 /\ UNCHANGED <<artists, artistId, artistsFound, lastWrite>>
            ELSE /\ IF FindArtist(slugifyExtra(Event.artists[ai])) # {}
                    THEN /\ \E id \in FindArtist(slugifyExtra(Event.artists[ai])) :
                              artistId' = id
                         /\ UNCHANGED <<artists, artistsFound, lastWrite>>
                    ELSE /\ artists' = Append(artists, RescrapeArtistRow(Event.artists[ai]))
                         /\ artistId' = Len(artists) + 1
                         /\ artistsFound' = artistsFound + 1
                         /\ lastWrite' = "artist"
                 /\ pc' = "rs.link"
    /\ UNCHANGED <<venues, festivals, festivalLineups, scrapeLogs, festivalsFound,
                   errors, listings, li, ai, venueId, festivalId, lastLink,
                   scriptFrame>>

\* db.insert(festivalLineups).values({...}).onConflictDoNothing()
RescrapeLink ==
    /\ pc = "rs.link"
    /\ \E ok \in FaultOutcomes :
         LET row == LineupRow(festivalId, artistId, Event)
             res == InsertLineup(festivalLineups, row)
             done == ok /\ ~res.threw
         IN  /\ faultsLeft' = FaultsAfter(ok)
             /\ lastLink' = LinkOutcome("extra", row, res, done)
             /\ IF ~done
                THEN /\ pc' = "rs.log"
                     /\ UNCHANGED <<festivalLineups, li, ai, lastWrite>>
                ELSE /\ festivalLineups' = res.rows
                     /\ lastWrite' = IF Len(res.rows) # Len(festivalLineups)
                                     THEN "lineup" ELSE lastWrite
                     /\ Goto(RescrapeArtistHead(listings, li, ai + 1))
    /\ UNCHANGED <<venues, artists, festivals, scrapeLogs, festivalsFound,
                   artistsFound, errors, listings, venueId, festivalId, artistId,
                   scriptFrame>>

\* await db.insert(scrapeLogs).values({...}); rescrapeRA and main return
RescrapeWriteLog ==
    /\ pc = "rs.log"
    /\ \E ok \in FaultOutcomes :
         /\ faultsLeft' = FaultsAfter(ok)
         /\ IF ~ok
            THEN pc' = "crashed" /\ UNCHANGED <<scrapeLogs, lastWrite>>
            ELSE /\ scrapeLogs' =
                        InsertLog(scrapeLogs, RescrapeLogRow(festivalsFound, artistsFound))
                 /\ lastWrite' = "log"
                 /\ pc' = "exited"
    /\ UNCHANGED <<venues, artists, festivals, festivalLineups, syncVars, lastLink,
                   scriptFrame>>

\* ---------------------------------------------------------------- insertEvent
StartInsertEvent ==
    /\ pc \in {"idle", "exited", "crashed"} /\ world \in {"ingest", "events"}
    /\ \E d \in EventInputsFor(world) : StartScript("insertEvent", d, "ie.exists")

\* if (await eventExists(data.name)) return
InsertEventExists ==
    /\ pc = "ie.exists"
    /\ \E ok \in FaultOutcomes :
         /\ faultsLeft' = FaultsAfter(ok)
         /\ pc' = IF ~ok THEN "crashed"
                  ELSE IF eventExists(data.name) THEN "exited" ELSE "ie.insert"
    /\ UNCHANGED <<storeVars, syncVars, lastLink, lastWrite, scriptFrame>>

\* db.insert(festivals) under slugify(data.name) + "-2026", rejected by the
\* unique slug if it exists
InsertEventFestival ==
    /\ pc = "ie.insert"
    /\ \E ok \in FaultOutcomes :
         /\ faultsLeft' = FaultsAfter(ok)
         /\ IF ~ok \/ FindFestival(EventSlug(data.name)) # {}
            THEN /\ pc' = "crashed"
                 /\ UNCHANGED <<festivals, festivalId, li, ai, lastWrite>>
            ELSE /\ festivals' = Append(festivals, InsertEventRow(data, Null))
                 /\ festivalId' = Len(festivals) + 1
                 /\ lastWrite' = "festival"
                 /\ Goto(InsertEventArtistHead(data, 1))
    /\ UNCHANGED <<venues, artists, festivalLineups, scrapeLogs, festivalsFound,
                   artistsFound, errors, listings, venueId, artistId, lastLink,
                   scriptFrame>>

\* upsertArtist(artistName)
InsertEventUpsertArtist ==
    /\ pc = "ie.artist"
    /\ \E ok \in FaultOutcomes :
         /\ faultsLeft' = FaultsAfter(ok)
         /\ IF ~ok
            THEN pc' = "crashed" /\ UNCHANGED <<artists, artistId, lastWrite>>
            ELSE /\ IF FindArtist(slugifyExtra(data.artistNames[ai])) # {}
                    THEN /\ \E id \in FindArtist(slugifyExtra(data.artistNames[ai])) :
                              artistId' = id
                         /\ UNCHANGED <<artists, lastWrite>>
                    ELSE /\ artists' =
                               Append(artists, RescrapeArtistRow(data.artistNames[ai]))
                         /\ artistId' = Len(artists) + 1
                         /\ lastWrite' = "artist"
                 /\ pc' = "ie.link"
    /\ UNCHANGED <<venues, festivals, festivalLineups, scrapeLogs, festivalsFound,
                   artistsFound, errors, listings, li, ai, venueId, festivalId,
                   lastLink, scriptFrame>>

\* db.insert(festivalLineups).values({...}).onConflictDoNothing()
InsertEventLink ==
    /\ pc = "ie.link"
    /\ \E ok \in FaultOutcomes :
         LET row == [festivalId |-> festivalId, artistId |-> artistId,
                     performanceDate |-> data.startDate]
             res == InsertLineup(festivalLineups, row)
             done == ok /\ ~res.threw
         IN  /\ faultsLeft' = FaultsAfter(ok)
             /\ lastLink' = LinkOutcome("insertEvent", row, res, done)
             /\ IF ~done
                THEN /\ pc' = "crashed"
                     /\ UNCHANGED <<festivalLineups, li, ai, lastWrite>>
                ELSE /\ festivalLineups' = res.rows
                     /\ lastWrite' = IF Len(res.rows) # Len(festivalLineups)
                                     THEN "lineup" ELSE lastWrite
                     /\ Goto(InsertEventArtistHead(data, ai + 1))
    /\ UNCHANGED <<venues, artists, festivals, scrapeLogs, festivalsFound,
                   artistsFound, errors, listings, venueId, festivalId, artistId,
                   scriptFrame>>

\* ----------------------------------------------------------- manual-enrich.ts
ManualArtistRow(name) == [name |-> name, slug |-> slugifyNFD(name)]
\* .where(ilike(venues.name, "%Rancho La Merced%"))
existingVenues == {i \in DOMAIN venues : ilike(venues[i].name, Containing(RanchoLaMerced))}
\* .where(ilike(festivals.name, "%Envision%"))
envisionRows == {i \in DOMAIN festivals : ilike(festivals[i].name, Containing(Envision))}

\* for (const name of artistNames)
ManualArtistHead(a) ==
    IF a <= Len(artistNames) THEN [pc |-> "me.artist", li |-> 1, ai |-> a]
    ELSE [pc |-> "me.tardeo", li |-> 1, ai |-> a]

StartManual ==
    /\ pc \in {"idle", "exited", "crashed"} /\ world \in {"ingest", "enrich"}
    /\ StartScript("manual", NoData, "me.venue")

\* 1. the venue: update the first match, or insert Rancho La Merced
ManualUpsertVenue ==
    /\ pc = "me.venue"
    /\ \E ok \in FaultOutcomes :
         /\ faultsLeft' = FaultsAfter(ok)
         /\ IF ~ok THEN pc' = "crashed" /\ UNCHANGED <<venues, venueId, lastWrite>>
            ELSE /\ IF existingVenues # {}
                    THEN \E id \in existingVenues :
                            /\ venueId' = id
                            /\ venues' = [venues EXCEPT ![id].city = UvitaPuntarenas]
                    ELSE /\ venues' = Append(venues,
                               [name |-> RanchoLaMerced, city |-> UvitaPuntarenas])
                         /\ venueId' = Len(venues) + 1
                 /\ lastWrite' = "venue"
                 /\ pc' = "me.envision"
    /\ UNCHANGED <<artists, festivals, festivalLineups, scrapeLogs, festivalsFound,
                   artistsFound, errors, listings, li, ai, festivalId, artistId,
                   lastLink, scriptFrame>>

\* find Envision: return if absent, else update its dates and venue
ManualUpdateEnvision ==
    /\ pc = "me.envision"
    /\ \E ok \in FaultOutcomes :
         /\ faultsLeft' = FaultsAfter(ok)
         /\ IF ~ok
            THEN /\ pc' = "crashed"
                 /\ UNCHANGED <<festivals, festivalId, li, ai, lastWrite>>
            ELSE IF envisionRows = {}
            THEN /\ pc' = "exited"
                 /\ UNCHANGED <<festivals, festivalId, li, ai, lastWrite>>
            ELSE /\ \E id \in envisionRows :
                      /\ festivalId' = id
                      /\ festivals' = [festivals EXCEPT ![id].startDate = "2026-02-23",
                                                        ![id].venueId = venueId]
                 /\ lastWrite' = "festival"
                 /\ Goto(ManualArtistHead(1))
    /\ UNCHANGED <<venues, artists, festivalLineups, scrapeLogs, festivalsFound,
                   artistsFound, errors, listings, venueId, artistId, lastLink,
                   scriptFrame>>

\* select the artist by slug, insert when absent
ManualUpsertArtist ==
    /\ pc = "me.artist"
    /\ \E ok \in FaultOutcomes :
         /\ faultsLeft' = FaultsAfter(ok)
         /\ IF ~ok
            THEN pc' = "crashed" /\ UNCHANGED <<artists, artistId, lastWrite>>
            ELSE /\ IF FindArtist(slugifyNFD(artistNames[ai])) # {}
                    THEN /\ \E id \in FindArtist(slugifyNFD(artistNames[ai])) :
                              artistId' = id
                         /\ UNCHANGED <<artists, lastWrite>>
                    ELSE /\ artists' = Append(artists, ManualArtistRow(artistNames[ai]))
                         /\ artistId' = Len(artists) + 1
                         /\ lastWrite' = "artist"
                 /\ pc' = "me.link"
    /\ UNCHANGED <<venues, festivals, festivalLineups, scrapeLogs, festivalsFound,
                   artistsFound, errors, listings, li, ai, venueId, festivalId,
                   lastLink, scriptFrame>>

\* db.insert(festivalLineups).values({ festivalId, artistId }).onConflictDoNothing()
ManualLink ==
    /\ pc = "me.link"
    /\ \E ok \in FaultOutcomes :
         LET row == [festivalId |-> festivalId, artistId |-> artistId,
                     performanceDate |-> ""]
             res == InsertLineup(festivalLineups, row)
             done == ok /\ ~res.threw
         IN  /\ faultsLeft' = FaultsAfter(ok)
             /\ lastLink' = LinkOutcome("manual", row, res, done)
             /\ IF ~done
                THEN /\ pc' = "crashed"
                     /\ UNCHANGED <<festivalLineups, li, ai, lastWrite>>
                ELSE /\ festivalLineups' = res.rows
                     /\ lastWrite' = IF Len(res.rows) # Len(festivalLineups)
                                     THEN "lineup" ELSE lastWrite
                     /\ Goto(ManualArtistHead(ai + 1))
    /\ UNCHANGED <<venues, artists, festivals, scrapeLogs, festivalsFound,
                   artistsFound, errors, listings, venueId, festivalId, artistId,
                   scriptFrame>>

\* a fixed event of the script: when its slug is absent, insert its venue
\* (no look-up), then the festival
ManualFixedVenue(slug, vname, vcity, thenPc, skipPc) ==
    /\ \E ok \in FaultOutcomes :
         /\ faultsLeft' = FaultsAfter(ok)
         /\ IF ~ok THEN pc' = "crashed" /\ UNCHANGED <<venues, venueId, lastWrite>>
            ELSE IF FindFestival(slug) # {}
            THEN pc' = skipPc /\ UNCHANGED <<venues, venueId, lastWrite>>
            ELSE /\ venues' = Append(venues, [name |-> vname, city |-> vcity])
                 /\ venueId' = Len(venues) + 1
                 /\ lastWrite' = "venue"
                 /\ pc' = thenPc
    /\ UNCHANGED <<artists, festivals, festivalLineups, scrapeLogs, festivalsFound,
                   artistsFound, errors, listings, li, ai, festivalId, artistId,
                   lastLink, scriptFrame>>

ManualFixedFestival(slug, fname, date, thenPc) ==
    /\ \E ok \in FaultOutcomes :
         /\ faultsLeft' = FaultsAfter(ok)
         /\ IF ~ok \/ FindFestival(slug) # {}
            THEN pc' = "crashed" /\ UNCHANGED <<festivals, lastWrite>>
            ELSE /\ festivals' = Append(festivals,
                        [name |-> fname, slug |-> slug, startDate |-> date,
                         venueId |-> venueId, attending |-> Null])
                 /\ lastWrite' = "festival"
                 /\ pc' = thenPc
    /\ UNCHANGED <<venues, artists, festivalLineups, scrapeLogs, syncVars, lastLink,
                   scriptFrame>>

\* 2. Tardeo Sunset Party
ManualTardeoVenue ==
    /\ pc = "me.tardeo"
    /\ ManualFixedVenue(tardeoSlug, SanRamon, SanRamon, "me.tardeoFest", "me.3am")
ManualTardeoFestival ==
    /\ pc = "me.tardeoFest"
    /\ ManualFixedFestival(tardeoSlug, TardeoSunsetParty, "2026-02-15", "me.3am")
\* 3. 3AM Anniversary
Manual3amVenue ==
    /\ pc = "me.3am"
    /\ ManualFixedVenue(threeAmSlug, KokoClub, SanJose, "me.3amFest", "me.spot")
Manual3amFestival ==
    /\ pc = "me.3amFest"
    /\ ManualFixedFestival(threeAmSlug, ThreeAmAnniversary, "2026-02-22", "me.spot")

\* 4. the spotlight clean-up reads artists and writes only artistSpotlights,
\* a table outside this model; then main returns
ManualSpotlights ==
    /\ pc = "me.spot"
    /\ \E ok \in FaultOutcomes :
         /\ faultsLeft' = FaultsAfter(ok)
         /\ pc' = IF ok THEN "exited" ELSE "crashed"
    /\ UNCHANGED <<storeVars, syncVars, lastLink, lastWrite, scriptFrame>>

NextIngest ==
    \/ Next
    \/ StartExtra \/ Scrape3AM \/ RescrapeFetchReturned \/ RescrapeFetchRejected
    \/ RescrapeCheck \/ RescrapeUpsertVenue \/ RescrapeInsertFestival
    \/ RescrapeUpsertArtist \/ RescrapeLink \/ RescrapeWriteLog
    \/ StartInsertEvent \/ InsertEventExists \/ InsertEventFestival
    \/ InsertEventUpsertArtist \/ InsertEventLink
    \/ StartManual \/ ManualUpsertVenue \/ ManualUpdateEnvision
    \/ ManualUpsertArtist \/ ManualLink
    \/ ManualTardeoVenue \/ ManualTardeoFestival
    \/ Manual3amVenue \/ Manual3amFestival \/ ManualSpotlights

SpecIngest == InitIngest /\ [][NextIngest]_vars

NextRescrape ==
    \/ StartExtra \/ Scrape3AM
    \/ FetchThrows \/ FetchNotOk \/ FetchEmptyPage \/ FetchPage \/ FetchDelay
    \/ RescrapeFetchReturned \/ RescrapeFetchRejected
    \/ RescrapeCheck \/ RescrapeUpsertVenue \/ RescrapeInsertFestival
    \/ RescrapeUpsertArtist \/ RescrapeLink \/ RescrapeWriteLog

SpecRescrape == InitRescrape /\ [][NextRescrape]_vars

\* the steady remote never fails, so no fetch ends in a rejection
NextPair ==
    \/ StartMain \/ CallSyncArea \/ MainDone
    \/ FetchEmptyPage \/ FetchPage \/ FetchDelay \/ FetchReturned
    \/ UpsertVenueNone \/ UpsertVenueSelect \/ UpsertVenueInsert
    \/ UpsertFestival \/ UpsertArtist \/ LinkLineup \/ WriteLog
    \/ StartExtra \/ Scrape3AM \/ RescrapeFetchReturned
    \/ RescrapeCheck \/ RescrapeUpsertVenue \/ RescrapeInsertFestival
    \/ RescrapeUpsertArtist \/ RescrapeLink \/ RescrapeWriteLog

SpecPair == InitPair /\ [][NextPair]_vars

NextEnrich ==
    \/ NextPair
    \/ StartManual \/ ManualUpsertVenue \/ ManualUpdateEnvision
    \/ ManualUpsertArtist \/ ManualLink
    \/ ManualTardeoVenue \/ ManualTardeoFestival
    \/ Manual3amVenue \/ Manual3amFestival \/ ManualSpotlights

SpecEnrich == InitEnrich /\ [][NextEnrich]_vars

NextEvents ==
    \/ StartInsertEvent \/ InsertEventExists \/ InsertEventFestival
    \/ InsertEventUpsertArtist \/ InsertEventLink

SpecEvents == InitEvents /\ [][NextEvents]_vars

\* ------------------------------------- upsertVenue by processes side by side
\* Each process (a sync run or a re-scrape) walks the same listings and
\* calls upsertVenue for each; its select and its insert are two store
\* calls, and the calls of the processes interleave in any order. The other
\* store calls of a pass touch no venue row.
RaceListings == <<ListingA, ListingB, ListingC>>
ProcIds == 1..MaxProcs
\* the venue row each script inserts
RaceVenueRow(kind, event) ==
    IF kind = "sync" THEN VenueRow(event)
    ELSE ExtraVenueRow(event.venue.name, event.venue.city)
\* the process moves on to the next listing
RaceAdvance(p) ==
    [procs EXCEPT ![p].li = @ + 1,
                  ![p].at = IF procs[p].li + 1 > Len(RaceListings)
                            THEN "done" ELSE "select"]

InitRace ==
    /\ InitCommon /\ NoSlugRun /\ faultsLeft = 0 /\ world = "race"
    /\ procs \in [ProcIds -> {[kind |-> k, li |-> 1, at |-> "select"] :
                                 k \in {"sync", "extra"}}]
    /\ overlapped = FALSE

raceFrame == <<artists, festivals, festivalLineups, scrapeLogs, pc, mainVars,
               syncVars, fetchVars, faultsLeft, world, slugVars, progVars,
               lastLink, histVars>>

\* if (!v?.name) return null: no store call
RaceNoVenue ==
    /\ world = "race"
    /\ \E p \in ProcIds :
         /\ procs[p].at = "select"
         /\ RaceListings[procs[p].li].venue.name = <<>>
         /\ procs' = RaceAdvance(p)
    /\ UNCHANGED <<venues, overlapped, raceFrame>>

\* select by name; if (existing.length > 0) return existing[0].id
RaceSelect ==
    /\ world = "race"
    /\ \E p \in ProcIds :
         LET name == RaceListings[procs[p].li].venue.name
         IN  /\ procs[p].at = "select" /\ name # <<>>
             /\ IF FindVenue(name) # {}
                THEN procs' = RaceAdvance(p) /\ UNCHANGED overlapped
                ELSE /\ procs' = [procs EXCEPT ![p].at = "insert"]
                     /\ overlapped' =
                          (overlapped \/ \E q \in ProcIds \ {p} :
                              /\ procs[q].at = "insert"
                              /\ RaceListings[procs[q].li].venue.name = name)
    /\ UNCHANGED <<venues, raceFrame>>

\* insert the venue row, returning its id
RaceInsert ==
    /\ world = "race"
    /\ \E p \in ProcIds :
         /\ procs[p].at = "insert"
         /\ venues' = Append(venues,
                 RaceVenueRow(procs[p].kind, RaceListings[procs[p].li]))
         /\ procs' = RaceAdvance(p)
    /\ UNCHANGED <<overlapped, raceFrame>>

NextRace == RaceNoVenue \/ RaceSelect \/ RaceInsert

SpecRace == InitRace /\ [][NextRace]_vars

\* ------------------------------------------------- slugify taken on its own
\* characters of the names handed to slugify: a letter in both cases, the
\* same letter with a diacritic in both cases, a digit, a space and a hyphen
SlugAlphabet == {"e", "E", "e_acute", "E_acute", "1", " ", "-"}
Names == UNION {[1..n -> SlugAlphabet] : n \in 0..MaxLen}

\* the letter without its diacritic, case kept
Unaccent(c) ==
    IF c \in Range(AccentLower) THEN StripMarks(c)
    ELSE IF c \in Range(AccentUpper)
    THEN LET b == StripMarks(toLowerCase(c))
         IN  UpperCase[CHOOSE i \in DOMAIN LowerCase : LowerCase[i] = b]
    ELSE c
\* the characters that are c up to case, and up to a diacritic
SameButCase(c) == {x \in SlugAlphabet : toLowerCase(x) = toLowerCase(c)}
SameButMarks(c) == {x \in SlugAlphabet : Unaccent(x) = Unaccent(c)}
\* names that differ from t only in the case of letters
RECURSIVE CaseForms(_)
CaseForms(t) ==
    IF t = <<>> THEN {<<>>}
    ELSE {<<c>> \o r : c \in SameButCase(Head(t)), r \in CaseForms(Tail(t))}
CaseVariants(t) == CaseForms(t) \ {t}
\* names that differ from t only in letters carrying a diacritic or not
RECURSIVE MarkForms(_)
MarkForms(t) ==
    IF t = <<>> THEN {<<>>}
    ELSE {<<c>> \o r : c \in SameButMarks(Head(t)), r \in MarkForms(Tail(t))}
MarkVariants(t) == MarkForms(t) \ {t}

\* the slug each script's slugify gives a name
AllSlugs(t) ==
    [sync |-> slugify(t), extra |-> slugifyExtra(t), manual |-> slugifyNFD(t)]

InitSlug ==
    /\ InitCommon /\ NoRace /\ faultsLeft = 0 /\ world = "slug"
    /\ \E t \in Names : texts = <<[s |-> t, how |-> "given"]>>
    /\ slugs = <<>>

slugFrame == <<storeVars, pc, mainVars, syncVars, fetchVars, faultsLeft, world,
               raceVars, progVars, lastLink, histVars>>

\* the scripts call slugify on the next name
Slugify ==
    /\ world = "slug"
    /\ Len(slugs) < Len(texts)
    /\ slugs' = Append(slugs, AllSlugs(texts[Len(slugs) + 1].s))
    /\ UNCHANGED <<texts, slugFrame>>

\* a second name arrives that differs from the first only by case
VaryCase ==
    /\ world = "slug"
    /\ Len(texts) = 1 /\ Len(slugs) = 1
    /\ \E v \in CaseVariants(texts[1].s) :
         texts' = Append(texts, [s |-> v, how |-> "case"])
    /\ UNCHANGED <<slugs, slugFrame>>

\* a second name arrives that differs from the first only by diacritics
VaryMarks ==
    /\ world = "slug"
    /\ Len(texts) = 1 /\ Len(slugs) = 1
    /\ \E v \in MarkVariants(texts[1].s) :
         texts' = Append(texts, [s |-> v, how |-> "marks"])
    /\ UNCHANGED <<slugs, slugFrame>>

\* the same name is handed to slugify once more
Repeat ==
    /\ world = "slug"
    /\ Len(texts) = 1 /\ Len(slugs) = 1
    /\ texts' = Append(texts, [s |-> texts[1].s, how |-> "same"])
    /\ UNCHANGED <<slugs, slugFrame>>

NextSlug == Slugify \/ VaryCase \/ VaryMarks \/ Repeat

SpecSlug == InitSlug /\ [][NextSlug]_vars

TypeOK ==
    /\ pc \in {"idle", "region", "fetch", "delay", "fetched", "venue", "venueIns",
                "festival", "artist", "link", "log", "exited", "crashed",
                "x.3am", "rs.check", "rs.venue", "rs.festival", "rs.artist",
                "rs.link", "rs.log", "ie.exists", "ie.insert", "ie.artist",
                "ie.link", "me.venue", "me.envision", "me.artist", "me.link",
                "me.tardeo", "me.tardeoFest", "me.3am", "me.3amFest", "me.spot"}
    /\ faultsLeft \in 0..(MaxFaults + MaxBurst)

\* ================================================================= claims
ListingOps == {"venue.select", "venue.insert", "festival.upsert"}
ArtistOps == {"artist.upsert", "lineup.insert"}
IsFailedArtistOp(o) == ~o.ok /\ o.op \in ArtistOps
IsFailedListingOp(o) == ~o.ok /\ o.op \in ListingOps
IsFailedSyncOp(o) == ~o.ok /\ o.op \in ListingOps \cup ArtistOps
\* the message the catch blocks record for a rejected store call
ExpectedError(ls, o) ==
    IF o.op \in ArtistOps THEN ArtistError(ls[o.li].artists[o.ai], StoreDown)
    ELSE EventError(ls[o.li].title, StoreDown)
ExpectedErrors(ls, failed) == [k \in DOMAIN failed |-> ExpectedError(ls, failed[k])]
IsArtistError(e) == e.scope = "Artist"
IsEventError(e) == e.scope = "Event"
AllOk(t) == \A k \in DOMAIN t : t[k].ok

\* the for loop over listings has left listing l behind
Finished(l) ==
    \/ pc \in {"log", "region", "exited", "crashed"}
    \/ pc \in {"venue", "venueIns", "festival", "artist", "link"} /\ li > l
LoopOver == pc \in {"log", "region", "exited", "crashed"}
Attempted(l, a) ==
    \E k \in DOMAIN ops : ops[k].li = l /\ ops[k].ai = a /\ ops[k].op = "artist.upsert"
NoFault(l, a) ==
    \A k \in DOMAIN ops : (ops[k].li = l /\ ops[k].ai = a) => ops[k].ok
\* artist slot a of listing l has its artist row and its lineup row
Linked(l, a) ==
    \E f \in DOMAIN festivals, x \in DOMAIN artists :
        /\ festivals[f].slug = FestivalSlug(listings[l])
        /\ artists[x].slug = slugify(listings[l].artists[a])
        /\ \E r \in DOMAIN festivalLineups :
              festivalLineups[r].festivalId = f /\ festivalLineups[r].artistId = x
HasRows(l) ==
    /\ \E f \in DOMAIN festivals : festivals[f].slug = FestivalSlug(listings[l])
    /\ listings[l].venue.name # <<>> =>
          \E v \in DOMAIN venues : venues[v].name = listings[l].venue.name

\* C1: two consecutive syncArea calls that fetched the same listings and met
\* no store error leave the venue, artist, festival and lineup tables with
\* the same row counts after the second call as after the first.
C1_SecondRunInsertsNothing ==
    \A i \in DOMAIN callHist, j \in DOMAIN callHist :
        ( /\ callHist[j].call = callHist[i].call + 1
          /\ callHist[j].listings = callHist[i].listings
          /\ callHist[j].threw = callHist[i].threw
          /\ callHist[i].clean /\ callHist[j].clean )
        => callHist[j].counts = callHist[i].counts
C1_Witness ==
    \E i \in DOMAIN callHist, j \in DOMAIN callHist :
        /\ callHist[j].call = callHist[i].call + 1
        /\ callHist[j].listings = callHist[i].listings
        /\ Len(callHist[i].listings) >= 3
        /\ callHist[i].clean /\ callHist[j].clean
        /\ callHist[i].counts.lineups >= 2 /\ callHist[i].counts.venues >= 2

\* no two lineup rows carry the same (festivalId, artistId) pair
UniqueLineup ==
    \A i \in DOMAIN festivalLineups, j \in DOMAIN festivalLineups :
        ( /\ festivalLineups[i].festivalId = festivalLineups[j].festivalId
          /\ festivalLineups[i].artistId = festivalLineups[j].artistId ) => i = j

\* C2: whichever script links (sync, the RA re-scrape, insertEvent, manual
\* enrichment), the lineup table never holds two rows for one
\* (festivalId, artistId) pair, and a link of a pair that is already there
\* returns normally, adds no row and records no error message.
C2_LinkExistingPairIsSilent ==
    /\ UniqueLineup
    /\ lastLink.dup =>
          (~lastLink.threw /\ ~lastLink.grew /\ ~lastLink.recorded)
\* manual enrichment has just linked a pair that another script linked before
C2_Witness ==
    /\ lastLink.site = "manual" /\ lastLink.dup /\ pc # "crashed"
    /\ \E r \in DOMAIN festivalLineups :
          /\ festivalLineups[r].festivalId = festivalId
          /\ festivalLineups[r].performanceDate # ""

\* C3: when the artist upsert or the lineup link of one artist slot throws,
\* one message naming that artist is recorded, every later artist slot of the
\* listing is still upserted and (unless it throws itself) linked, and the
\* listing's venue and festival rows are in the store.
C3_ArtistFailureIsolated ==
    /\ SelectSeq(errors, IsArtistError)
         = ExpectedErrors(listings, SelectSeq(ops, IsFailedArtistOp))
    /\ \A k \in DOMAIN ops :
         (IsFailedArtistOp(ops[k]) /\ Finished(ops[k].li)) =>
            /\ HasRows(ops[k].li)
            /\ \A a \in (ops[k].ai + 1)..Len(listings[ops[k].li].artists) :
                  /\ Attempted(ops[k].li, a)
                  /\ NoFault(ops[k].li, a) => Linked(ops[k].li, a)
C3_Witness ==
    \E k \in DOMAIN ops :
        /\ IsFailedArtistOp(ops[k]) /\ Finished(ops[k].li)
        /\ ops[k].ai < Len(listings[ops[k].li].artists)
        /\ Linked(ops[k].li, ops[k].ai + 1)
        /\ Len(errors) = 1

\* C4: when the venue upsert or the festival upsert of a listing throws, one
\* message for that listing is recorded (and none for its artists, which are
\* skipped), and every later listing of the region is still processed.
C4_ListingFailureIsolated ==
    /\ ~fetchThrew =>
         errors = ExpectedErrors(listings, SelectSeq(ops, IsFailedSyncOp))
    /\ \A k \in DOMAIN ops :
         IsFailedListingOp(ops[k]) =>
            /\ \A m \in DOMAIN ops :
                  (ops[m].li = ops[k].li /\ ~ops[m].ok) => m = k
            /\ \A m \in DOMAIN ops : ops[m].li = ops[k].li => ops[m].op \in ListingOps
            /\ LoopOver =>
                  \A l \in (ops[k].li + 1)..Len(listings) :
                      \E m \in DOMAIN ops : ops[m].li = l /\ ops[m].op \in ListingOps
C4_Witness ==
    \E k \in DOMAIN ops, m \in DOMAIN ops :
        /\ IsFailedListingOp(ops[k]) /\ pc = "region"
        /\ ops[m].li > ops[k].li /\ ops[m].op = "lineup.insert" /\ ops[m].ok
        /\ Len(errors) = 1

\* a syncArea call has just returned to main: its locals are still in view
Returned == pc \in {"region", "exited"} /\ ri > 1
LastRow == scrapeLogs[Len(scrapeLogs)]
SyncOps == SelectSeq(ops, LAMBDA o : o.op # "log.insert")

\* C5: a syncArea call whose fetchRAEvents threw (at whichever page) records
\* the one region-level error, makes no store call for any listing, logs
\* festivalsFound = 0 and artistsFound = 0 with status partial, and returns to
\* main, which goes on to the next region.
C5_FetchThrowIsOneRegionError ==
    (fetchThrew /\ pc # "fetched") =>
        /\ errors = <<AreaError(targetAreas[IF pc \in {"log", "crashed"} THEN ri ELSE ri - 1],
                                FetchFailed)>>
        /\ festivalsFound = 0 /\ artistsFound = 0
        /\ SyncOps = <<>>
        /\ pc \in {"log", "region", "exited", "crashed"}
        /\ pc = "crashed" => (ops # <<>> /\ ~ops[Len(ops)].ok)
        /\ (pc = "region" /\ ri <= Len(targetAreas)) => ENABLED CallSyncArea
        /\ Returned =>
              /\ LastRow =
                    [status |-> "partial", festivalsFound |-> 0, artistsFound |-> 0,
                     errors |-> <<AreaError(targetAreas[ri - 1], FetchFailed)>>]
              /\ \A i \in DOMAIN callHist, j \in DOMAIN callHist :
                    callHist[j].call = callHist[i].call + 1
                        => callHist[j].counts = callHist[i].counts
\* region 1 threw at page 2, after page 1 succeeded; region 2 is under way
C5_Witness ==
    /\ callHist # <<>> /\ callHist[Len(callHist)].threw
    /\ callHist[Len(callHist)].page = 2
    /\ callHist[Len(callHist)].call = calls - 1
    /\ ri = 2 /\ pc = "link"

\* C6: the run-log row of a syncArea call has status success exactly when the
\* call collected no error (no store call rejected, the fetch did not throw),
\* partial otherwise, and never error.
C6_StatusSuccessIffNoErrors ==
    Returned =>
        /\ LastRow.status = "success" <=> Len(errors) = 0
        /\ LastRow.status = "partial" <=> Len(errors) > 0
        /\ LastRow.status # "error"
        /\ LastRow.status = "success" <=> (AllOk(ops) /\ ~fetchThrew)
C6_Witness ==
    /\ Returned /\ LastRow.status = "partial" /\ Len(errors) = 1 /\ ~fetchThrew
    /\ Len(scrapeLogs) = 2 /\ scrapeLogs[1].status = "success"
    /\ scrapeLogs[1].festivalsFound > 0

\* C7: the error list of a run-log row has at most 20 entries and is the
\* first min(n, 20) of the n errors collected, in the order collected.
C7_ErrorsCappedOldestKept ==
    Returned =>
        /\ Len(LastRow.errors) <= 20
        /\ Len(LastRow.errors) = IF Len(errors) <= 20 THEN Len(errors) ELSE 20
        /\ \A k \in DOMAIN LastRow.errors : LastRow.errors[k] = errors[k]
C7_Witness ==
    /\ Returned /\ Len(errors) > 20 /\ Len(LastRow.errors) = 20
    /\ errors[1] # errors[Len(errors)]

InSyncArea ==
    pc \in {"fetch", "delay", "fetched", "venue", "venueIns", "festival", "artist",
            "link", "log"}
LogsThisRun == Len(scrapeLogs) - logsAtStart

IsRequest(e) == e.ev = "request"
Requests == SelectSeq(fetchTrace, IsRequest)
InFetch == pc \in {"fetch", "delay", "fetched"}
RECURSIVE Concat(_)
Concat(pages) ==
    IF pages = <<>> THEN <<>> ELSE Head(pages) \o Concat(Tail(pages))
Served(srv, k) == Len(Concat(SubSeq(srv.pages, 1, k)))
\* the server answers every request and its page sizes decrease to zero
Decreasing(srv) ==
    /\ srv.failAt = 0
    /\ \A k \in DOMAIN srv.pages :
         Len(srv.pages[k]) > (IF k < Len(srv.pages) THEN Len(srv.pages[k + 1]) ELSE 0)
\* the declared total is not reached before the last non-empty page
TotalNotReachedEarly(srv) ==
    \A k \in 1..(Len(srv.pages) - 1) : Served(srv, k) < srv.total
\* the first page at which the accumulated count reaches the declared total
StopPage(srv) ==
    IF \E k \in DOMAIN srv.pages : Served(srv, k) >= srv.total
    THEN CHOOSE k \in DOMAIN srv.pages :
            /\ Served(srv, k) >= srv.total
            /\ \A j \in 1..(k - 1) : Served(srv, j) < srv.total
    ELSE Len(srv.pages)
ConsecutivePages ==
    InFetch =>
        /\ \A k \in DOMAIN Requests : Requests[k].page = k
        /\ Requests # <<>> => Requests[1].have = 0
        /\ (pc = "fetch" /\ fetchTrace = <<>>) => (page = 1 /\ allEvents = <<>>)
        /\ pc = "fetch" => page = Len(Requests) + 1
        /\ page <= Len(server.pages) + 1

\* C9 as stated: pages 1, 2, 3, ... are requested consecutively, once each,
\* from page 1 and an empty accumulator; for any server whose page sizes
\* decrease to zero the call returns the concatenation of all non-empty pages.
C9_ReturnsAllPages ==
    /\ ConsecutivePages
    /\ (pc = "fetched" /\ Decreasing(server)) =>
          (~fetchThrew /\ allEvents = Concat(server.pages))
\* C9 amended: as stated when the declared totalResults is not reached before
\* the last non-empty page; when it is reached earlier the call stops there
\* and returns the concatenation of the pages up to and including that page.
C9_ReturnsPagesUpToTotal ==
    /\ ConsecutivePages
    /\ (pc = "fetched" /\ Decreasing(server)) =>
          /\ ~fetchThrew
          /\ TotalNotReachedEarly(server) => allEvents = Concat(server.pages)
          /\ allEvents = Concat(SubSeq(server.pages, 1, StopPage(server)))
          /\ Len(Requests) <= Len(server.pages) + 1
C9_Witness ==
    /\ pc = "fetched" /\ Decreasing(server) /\ TotalNotReachedEarly(server)
    /\ Len(server.pages) = 2 /\ Len(Requests) = 3 /\ Len(allEvents) = 3
    /\ calls = 2

\* C10: with totalResults = N declared, no page after the first is requested
\* once N or more listings are accumulated; if no page received was empty the
\* call made at most max(1, N) requests.
C10_NoRequestPastTotal ==
    InFetch =>
        /\ \A k \in DOMAIN Requests :
              Requests[k].page > 1 => Requests[k].have < server.total
        /\ ( /\ pc = "fetched"
             /\ \A k \in DOMAIN Requests :
                   Response(server, Requests[k].page).kind = "ok"
                       => Response(server, Requests[k].page).data # <<>> )
           => Len(Requests) <= (IF server.total > 1 THEN server.total ELSE 1)
C10_Witness ==
    /\ pc = "fetched" /\ ~fetchThrew /\ server.failAt = 0
    /\ Len(Requests) = 2 /\ Len(allEvents) = server.total
    /\ Response(server, 3).data = <<>>

\* the response a request of the current fetch received
Answer(k) == Response(server, Requests[k].page)
\* the current fetch has returned after a non-success response
EndedNotOk ==
    pc = "fetched" /\ Requests # <<>> /\ Answer(Len(Requests)).kind = "http"
\* syncArea takes the returned listings into its loop and records nothing
NotOkReturnStep ==
    (EndedNotOk /\ prog = "sync") =>
        /\ listings' = allEvents
        /\ errors = <<>> /\ errors' = <<>>
        /\ li' = 1
        /\ pc' = IF allEvents = <<>> THEN "log" ELSE "venue"
        /\ UNCHANGED storeVars

\* C11: a non-success response is the last request of the fetch, which
\* returns without throwing exactly the listings of the earlier pages; the
\* syncArea step that follows records no error and starts reconciling the
\* returned listings.
C11_NotOkStopsPagination ==
    /\ [](InFetch =>
            \A k \in DOMAIN Requests :
                Answer(k).kind = "http" => (k = Len(Requests) /\ pc = "fetched"))
    /\ [](EndedNotOk =>
            /\ ~fetchThrew
            /\ allEvents = Concat(SubSeq(server.pages, 1, Len(Requests) - 1)))
    /\ [][NotOkReturnStep]_vars
\* page 2 got a non-success response after page 1 delivered listings
C11_Witness ==
    /\ EndedNotOk /\ prog = "sync" /\ Len(Requests) = 2 /\ allEvents # <<>>
    /\ ENABLED FetchReturned

\* why the fetch that has returned stopped
EndedEmpty ==
    /\ pc = "fetched" /\ Requests # <<>> /\ Answer(Len(Requests)).kind = "ok"
    /\ Answer(Len(Requests)).data = <<>>
EndedOnTotal ==
    /\ pc = "fetched" /\ Requests # <<>> /\ Answer(Len(Requests)).kind = "ok"
    /\ Answer(Len(Requests)).data # <<>>

\* C12: the trace of a fetch alternates request, delay, request, ...: it
\* starts with a request, one delay lies between consecutive requests, and
\* when the fetch has returned (on an empty page, on the total, on a
\* non-success response or on a throw) the last event is a request.
C12_DelayOnlyBetweenRequests ==
    InFetch =>
        /\ \A k \in DOMAIN fetchTrace :
              fetchTrace[k].ev = IF k % 2 = 1 THEN "request" ELSE "delay"
        /\ pc \in {"fetched", "delay"} => Len(fetchTrace) % 2 = 1
        /\ pc = "fetch" => Len(fetchTrace) % 2 = 0
        /\ pc = "fetched" => Len(fetchTrace) = 2 * Len(Requests) - 1
\* three requests with two delays between them, ended by an empty page
C12_Witness ==
    /\ EndedEmpty /\ Len(Requests) = 3 /\ Len(fetchTrace) = 5

\* the place of a store call within the processing of its listing
Phase(o) ==
    CASE o.op = "venue.select" -> 1
      [] o.op = "venue.insert" -> 2
      [] o.op = "festival.upsert" -> 3
      [] o.op = "artist.upsert" -> 2 + 2 * o.ai
      [] o.op = "lineup.insert" -> 3 + 2 * o.ai
      [] OTHER -> 0
Before(a, b) == a.li < b.li \/ (a.li = b.li /\ Phase(a) < Phase(b))
\* a call of the given kind for listing l (artist slot a) was made and resolved
Done(name, l, a) ==
    \E k \in DOMAIN SyncOps :
        /\ SyncOps[k].op = name /\ SyncOps[k].li = l /\ SyncOps[k].ai = a
        /\ SyncOps[k].ok
OrderedOps ==
    /\ \A j \in DOMAIN SyncOps, k \in DOMAIN SyncOps :
          j < k => Before(SyncOps[j], SyncOps[k])
    /\ \A k \in DOMAIN SyncOps :
          LET o == SyncOps[k] IN
          /\ o.li \in DOMAIN listings
          /\ o.op = "venue.insert" => Done("venue.select", o.li, 0)
          /\ o.op = "festival.upsert" =>
                IF listings[o.li].venue.name = <<>>
                THEN ~\E j \in DOMAIN SyncOps :
                        SyncOps[j].li = o.li /\ SyncOps[j].op \in {"venue.select", "venue.insert"}
                ELSE Done("venue.select", o.li, 0)
          /\ o.op = "artist.upsert" =>
                /\ Done("festival.upsert", o.li, 0)
                /\ o.ai \in DOMAIN listings[o.li].artists
                /\ \A b \in 1..(o.ai - 1) :
                      \E j \in 1..(k - 1) :
                          /\ SyncOps[j].li = o.li /\ SyncOps[j].ai = b
                          /\ SyncOps[j].op = "artist.upsert"
          /\ o.op = "lineup.insert" =>
                (k > 1 /\ SyncOps[k - 1] = [op |-> "artist.upsert", li |-> o.li,
                                            ai |-> o.ai, ok |-> TRUE])
ReferencesExist ==
    /\ \A r \in DOMAIN festivalLineups :
          /\ festivalLineups[r].festivalId \in DOMAIN festivals
          /\ festivalLineups[r].artistId \in DOMAIN artists
    /\ \A f \in DOMAIN festivals :
          festivals[f].venueId # Null => festivals[f].venueId \in DOMAIN venues

\* C13: the store calls of a syncArea call come listing by listing, and for
\* each listing as venue upsert, festival upsert, then artist upsert and
\* lineup link slot by slot in listing order, each call made only after the
\* calls before it resolved; every lineup row references an existing festival
\* and artist row, every non-null festival venue an existing venue row.
C13_OrderAndReferences ==
    /\ OrderedOps
    /\ ReferencesExist
\* a listing with a venue and two artists has been processed in full
C13_Witness ==
    /\ Len(SyncOps) >= 7 /\ AllOk(SyncOps)
    /\ \E k \in DOMAIN SyncOps : SyncOps[k].op = "lineup.insert" /\ SyncOps[k].ai = 2
    /\ Len(festivalLineups) >= 2
    /\ \E f \in DOMAIN festivals : festivals[f].venueId # Null

\* table t1 is t0 with rows appended
Extends(t0, t1) == Len(t0) <= Len(t1) /\ SubSeq(t1, 1, Len(t0)) = t0
\* a listing whose festival row was found holding other data than the listing's
FoundWithOtherData(l) ==
    /\ Done("festival.upsert", l, 0)
    /\ \E f \in DOMAIN festivals :
          /\ festivals[f].slug = FestivalSlug(listings[l])
          /\ festivals[f].name # listings[l].title
          /\ festivals[f].startDate # listings[l].date
          /\ festivals[f].attending # listings[l].attending

\* C14: no step of sync changes or removes a venue, artist, festival or
\* lineup row that exists: every table is only ever appended to, also when
\* the listing at hand carries other data than the row its key finds.
C14_UpsertsNeverUpdate ==
    [][ /\ Extends(venues, venues') /\ Extends(artists, artists')
        /\ Extends(festivals, festivals')
        /\ Extends(festivalLineups, festivalLineups') ]_vars
\* a listing found its festival, stored with another title case, date and
\* attending counter, and the lineup link of its artist hit an existing pair
C14_Witness ==
    \E l \in DOMAIN listings :
        /\ FoundWithOtherData(l)
        /\ Done("lineup.insert", l, 1)
        /\ lastLink.dup

\* the keys a store holds
VenueNames == {venues[i].name : i \in DOMAIN venues}
ArtistSlugs == {artists[i].slug : i \in DOMAIN artists}
FestivalSlugs == {festivals[i].slug : i \in DOMAIN festivals}
LineupPairs ==
    {<<festivals[festivalLineups[r].festivalId].slug,
       artists[festivalLineups[r].artistId].slug>> : r \in DOMAIN festivalLineups}
\* the keys the listings ls call for
Slots(ls) == UNION {{<<l, a>> : a \in DOMAIN ls[l].artists} : l \in DOMAIN ls}
WantedVenues(ls) == {ls[l].venue.name : l \in DOMAIN ls} \ {<<>>}
WantedArtists(ls) == {slugify(ls[s[1]].artists[s[2]]) : s \in Slots(ls)}
WantedFestivals(ls) == {FestivalSlug(ls[l]) : l \in DOMAIN ls}
WantedPairs(ls) ==
    {<<FestivalSlug(ls[s[1]]), slugify(ls[s[1]].artists[s[2]])>> : s \in Slots(ls)}
StoreHolds(ls) ==
    /\ VenueNames = WantedVenues(ls) /\ ArtistSlugs = WantedArtists(ls)
    /\ FestivalSlugs = WantedFestivals(ls) /\ LineupPairs = WantedPairs(ls)
\* the syncArea call that just returned was the first on this store
FirstCallReturned ==
    /\ Returned /\ Len(callHist) = 1 /\ callHist[1].call = 1 /\ calls = 1
    /\ ~callHist[1].killed
\* the syncArea call that just returned followed a terminated first call that
\* had fetched the same listings
RecoveryCallReturned ==
    /\ Returned /\ Len(callHist) = 2 /\ calls = 2
    /\ callHist[1].call = 1 /\ callHist[1].killed
    /\ callHist[2].call = 2 /\ ~callHist[2].killed
    /\ callHist[2].listings = callHist[1].listings

\* C15: a complete syncArea call that follows a call terminated in the
\* middle of a listing, over the same listings, leaves the store with the
\* venue names, artist slugs, festival slugs and lineup pairs that one
\* uninterrupted call over those listings leaves.
C15_RerunRecovers ==
    /\ FirstCallReturned => StoreHolds(listings)
    /\ RecoveryCallReturned => StoreHolds(listings)
\* the first call was terminated with a festival written and lineup pairs
\* still missing
C15_Witness ==
    /\ RecoveryCallReturned
    /\ callHist[1].counts.festivals > 0
    /\ callHist[1].counts.lineups < Cardinality(WantedPairs(listings))
    /\ callHist[1].counts.lineups < callHist[2].counts.lineups


\* ---- C16
\* both names have been slugified by every script
BothSlugified == Len(texts) = 2 /\ Len(slugs) = 2
\* C16: two names that differ only by letter case, or only by diacritics,
\* get the same slug from slugify in every script (sync, extra, manual)
C16_VariantsShareSlug ==
    (BothSlugified /\ texts[2].how \in {"case", "marks"}) => slugs[1] = slugs[2]
\* what the scripts do give: case never matters, and diacritics do not
\* matter to manual-enrich's slugify
C16_CaseVariantsShareSlug ==
    (BothSlugified /\ texts[2].how = "case") => slugs[1] = slugs[2]
C16_ManualStripsMarks ==
    (BothSlugified /\ texts[2].how = "marks") => slugs[1].manual = slugs[2].manual
\* a name and its unaccented form slugified apart by sync and scrape-extra
C16_MarksSplit ==
    /\ BothSlugified /\ texts[2].how = "marks"
    /\ slugs[1].sync # slugs[2].sync /\ slugs[1].extra # slugs[2].extra
    /\ slugs[1].manual = slugs[2].manual

\* ---- C17
SlugChars == Range(LowerCase) \cup Range(Digits) \cup {"-"}
\* only a-z, 0-9 and hyphens, no two hyphens side by side, none at an edge
WellFormedSlug(g) ==
    /\ \A i \in DOMAIN g : g[i] \in SlugChars
    /\ \A i \in 1..(Len(g) - 1) : ~(g[i] = "-" /\ g[i + 1] = "-")
    /\ g # <<>> => (g[1] # "-" /\ g[Len(g)] # "-")
\* C17: the output of slugify holds only a-z, 0-9 and hyphens, with no two
\* adjacent hyphens and no leading or trailing hyphen, and the same input
\* always gives the same output
C17_SlugWellFormed ==
    /\ \A k \in DOMAIN slugs :
          /\ WellFormedSlug(slugs[k].sync)
          /\ WellFormedSlug(slugs[k].extra)
          /\ WellFormedSlug(slugs[k].manual)
    /\ (BothSlugified /\ texts[2].how = "same") => slugs[2] = slugs[1]
\* a name with a leading hyphen, an upper-case letter and an accented
\* letter that forms one run with the trailing space, slugified twice
C17_Witness ==
    /\ BothSlugified /\ texts[2].how = "same"
    /\ texts[1].s = <<"-", "E", "E_acute", " ">>
    /\ slugs[1].sync = <<"e">> /\ slugs[1].manual = <<"e", "e">>

\* ---- C18
\* every listing a server of this model can return
KnownListings == UNION {Range(Concat(pl)) : pl \in PageLists}
\* their keys and the slugs of their titles
KnownKeys == [e \in KnownListings |-> FestivalSlug(e)]
KnownTitleSlugs == [e \in KnownListings |-> slugify(e.title)]
\* the festival rows a listing resolves to
ResolvesTo(e) == FindFestival(KnownKeys[e])
\* upsertFestival returns the row that carries the listing's key
ResolveStep ==
    (pc = "festival" /\ Len(ops') > Len(ops) /\ ops'[Len(ops')].ok) =>
        /\ festivalId' \in DOMAIN festivals'
        /\ festivals'[festivalId'].slug = KnownTitleSlugs[Event] \o <<"-">> \o Event.id
        /\ \A i \in DOMAIN festivals' : festivals'[i].slug = festivals'[festivalId'].slug
                                           => i = festivalId'
\* C18: the festival key is slugify(title) + "-" + external id: listings
\* with different external ids resolve to different festival rows even
\* under one title, and listings with the same title and the same external
\* id resolve to the same single row
C18_FestivalKey ==
    /\ [](LET rows == [e \in KnownListings |-> ResolvesTo(e)]
           IN  \A e1, e2 \in KnownListings :
                 /\ e1.id # e2.id => rows[e1] \cap rows[e2] = {}
                 /\ (e1.id = e2.id /\ KnownTitleSlugs[e1] = KnownTitleSlugs[e2]) =>
                         /\ rows[e1] = rows[e2]
                         /\ Cardinality(rows[e1]) <= 1)
    /\ [][ResolveStep]_vars
\* ListingA and ListingB, one title under two ids, hold two rows, and
\* ListingC, ListingA's id again, has just resolved to ListingA's row
C18_Witness ==
    /\ pc = "artist" /\ Event = ListingC
    /\ ListingA.title = ListingB.title /\ ListingA.id # ListingB.id
    /\ Cardinality(ResolvesTo(ListingA) \cup ResolvesTo(ListingB)) = 2
    /\ ResolvesTo(ListingC) = {festivalId}
    /\ ResolvesTo(ListingA) = {festivalId}
    /\ festivals[festivalId].name = ListingA.title

\* external ids as the listing source issues them: digit strings
EventIds == UNION {[1..n -> {"1", "2"}] : n \in 1..2}
\* the part of a key after its last hyphen
RECURSIVE AfterLastHyphen(_)
AfterLastHyphen(g) ==
    IF g = <<>> \/ g[Len(g)] = "-" THEN <<>>
    ELSE Append(AfterLastHyphen(SubSeq(g, 1, Len(g) - 1)), g[Len(g)])
\* whatever the title, the key ends with the external id, so that keys
\* built from different ids differ
C18_KeyEndsWithId ==
    \A k \in DOMAIN slugs : \A id \in EventIds :
        AfterLastHyphen(FestivalSlug([title |-> texts[k].s, id |-> id])) = id

\* ---- C19
LowerName(n) == [k \in DOMAIN n |-> toLowerCase(n[k])]
\* upsertVenue has returned for the listing at hand, which names a venue
VenueResolved == pc = "festival" /\ Event.venue.name # <<>>
\* C19: after any sequence of sync runs no two venue rows carry the same
\* exact name, and a venue is identified by its name case-sensitively: the
\* row a listing gets carries the listing's venue name character for
\* character, so names differing only in case are separate rows
C19_VenueNamesExact ==
    /\ \A i \in DOMAIN venues, j \in DOMAIN venues :
          venues[i].name = venues[j].name => i = j
    /\ VenueResolved =>
          /\ venueId \in DOMAIN venues
          /\ venues[venueId].name = Event.venue.name
\* a second run meets both case variants of a name again: each keeps its
\* own row and no third row appears
C19_Witness ==
    /\ calls = 2 /\ VenueResolved /\ Event = ListingC
    /\ Len(venues) = 2
    /\ venues[1].name # venues[2].name
    /\ LowerName(venues[1].name) = LowerName(venues[2].name)
    /\ venues[venueId].name = ListingC.venue.name
    /\ \E k \in DOMAIN callHist : callHist[k].counts.venues = 2

\* ---- C20
Venueless(e) == e.venue.name = <<>>
ListingNoFault(l) == \A k \in DOMAIN ops : ops[k].li = l => ops[k].ok
\* upsertVenue on a listing without a venue name: null comes back at once
VenuelessStep ==
    (pc = "venue" /\ Venueless(Event)) =>
        /\ venueId' = Null /\ venues' = venues /\ ops' = ops
        /\ pc' = "festival" /\ li' = li
\* C20: for a listing without a venue, or with a venue without a name,
\* upsertVenue returns null, makes no store call and writes no venue row,
\* and the listing's festival is still created, with a null venue reference
C20_VenuelessListing ==
    /\ [][VenuelessStep]_vars
    /\ [](\A l \in DOMAIN listings :
            Venueless(listings[l]) =>
              /\ \A k \in DOMAIN ops :
                    ops[k].li = l => ops[k].op \notin {"venue.select", "venue.insert"}
              /\ (Finished(l) /\ ListingNoFault(l)) =>
                    /\ Done("festival.upsert", l, 0)
                    /\ \E f \in ResolvesTo(listings[l]) : festivals[f].venueId = Null)
\* ListingB, which has no venue, went through the loop: its festival row
\* stands with a null venue next to ListingA's, which has one
C20_Witness ==
    /\ pc = "log" /\ Len(listings) >= 2 /\ listings[2] = ListingB
    /\ Venueless(ListingB) /\ ListingNoFault(2)
    /\ \E f \in ResolvesTo(ListingB) : festivals[f].venueId = Null
    /\ \E f \in ResolvesTo(ListingA) : festivals[f].venueId # Null
    /\ Len(venues) >= 1

\* ---- C21
\* sub occurs in str as a run of consecutive characters
Contains(str, sub) ==
    \E k \in 0..(Len(str) - Len(sub)) : SubSeq(str, k + 1, k + Len(sub)) = sub
\* a festival row carries slugify(name), or its name contains the first 20
\* characters of name, letter case aside
SlugOrContains(name) ==
    \/ \E i \in DOMAIN festivals : festivals[i].slug = slugifyExtra(name)
    \/ \E i \in DOMAIN festivals :
          Contains(LowerName(festivals[i].name), LowerName(Substring20(name)))
\* insertEvent has its answer from eventExists
ExistsAnswered == pc = "ie.exists" /\ pc' # "crashed"
\* C21: eventExists(name) returns true exactly when some festival row's slug
\* equals slugify(name) or some festival row's name contains, letter case
\* aside, the first 20 characters of name; and whenever it returns true
\* insertEvent writes no festival, artist or lineup row
C21_EventExistsExact ==
    [][ExistsAnswered =>
          /\ (pc' = "exited") <=> SlugOrContains(data.name)
          /\ (pc' = "exited") => UNCHANGED storeVars]_vars
\* what does hold: a true answer ends insertEvent with the store untouched,
\* and a name held by a row is always answered true unless it carries the
\* LIKE escape character
C21_DuplicateWritesNothing ==
    [][(ExistsAnswered /\ eventExists(data.name)) =>
          (pc' = "exited" /\ UNCHANGED storeVars)]_vars
C21_ContainedIsFound ==
    [][(ExistsAnswered /\ SlugOrContains(data.name)
            /\ "\\" \notin Range(data.name)) => pc' = "exited"]_vars
\* "a_c" was answered as existing although the one festival row is "abc"
C21_WildcardHit ==
    /\ prog = "insertEvent" /\ pc = "exited" /\ calls = 2
    /\ data.name = <<"a", "_", "c">>
    /\ Len(festivals) = 1 /\ festivals[1].name = <<"a", "b", "c">>
    /\ ~SlugOrContains(data.name)

\* ---- C22
\* an error escaped main
MainRejected == prog = "sync" /\ pc = "crashed"
MainReturned == prog = "sync" /\ pc = "exited"
\* C22: when an error escapes main (the run-log insert at the end of
\* syncArea throws) the process ends with a non-zero exit code, and a run
\* whose only failures are listing, artist or region errors ends with 0
C22_ExitCodeTellsFailure ==
    /\ MainRejected => ExitCode(pc) # 0
    /\ MainReturned => ExitCode(pc) = 0
\* what does hold: a run that recorded errors and returned ends with 0
C22_PartialRunExitsZero ==
    (MainReturned /\ \E k \in DOMAIN scrapeLogs : scrapeLogs[k].status = "partial")
        => ExitCode(pc) = 0
\* the run-log insert threw out of syncArea and main, and the exit code is 0
C22_RejectedExitsZero ==
    /\ MainRejected /\ ops # <<>> /\ ops[Len(ops)].op = "log.insert"
    /\ ~ops[Len(ops)].ok /\ ExitCode(pc) = 0

\* ---- C23
\* the first script run ever was a syncArea call, it fetched the one
\* listing of Envision Festival, and it has returned
EnvisionSynced ==
    /\ prog = "sync" /\ calls = 1 /\ pc \in {"region", "exited"} /\ ri = 2
    /\ listings = <<ListingEnvision>>
\* C23: from an empty store, syncing the single listing "Envision Festival",
\* id 123, venue "Rancho La Merced" in "Uvita", artists "Bob Moses" and
\* "CloZee" yields one venue row, one festival row "envision-festival-123"
\* referencing it, artist rows "bob-moses" and "clozee", two lineup rows
\* linking them to the festival, and one run-log row with festivalsFound 1,
\* artistsFound 2 and status success
C23_EnvisionScenario ==
    EnvisionSynced =>
      /\ Len(venues) = 1
      /\ venues[1].name = <<"R","a","n","c","h","o"," ","L","a"," ","M","e","r","c","e","d">>
      /\ venues[1].city = <<"U","v","i","t","a">>
      /\ Len(festivals) = 1
      /\ festivals[1].slug = <<"e","n","v","i","s","i","o","n","-","f","e","s","t","i","v","a","l","-","1","2","3">>
      /\ festivals[1].venueId = 1
      /\ Len(artists) = 2
      /\ artists[1].slug = <<"b","o","b","-","m","o","s","e","s">>
      /\ artists[2].slug = <<"c","l","o","z","e","e">>
      /\ Len(festivalLineups) = 2
      /\ {<<festivalLineups[k].festivalId, festivalLineups[k].artistId>> :
              k \in DOMAIN festivalLineups} = {<<1, 1>>, <<1, 2>>}
      /\ Len(scrapeLogs) = 1
      /\ scrapeLogs[1].festivalsFound = 1 /\ scrapeLogs[1].artistsFound = 2
      /\ scrapeLogs[1].status = "success" /\ scrapeLogs[1].errors = <<>>
\* the scenario has run: the server held the one listing and answered every
\* request
C23_Witness ==
    /\ EnvisionSynced /\ pc = "exited"
    /\ callHist[1].listings = <<ListingEnvision>> /\ callHist[1].clean
    /\ ~callHist[1].threw
    /\ Len(scrapeLogs) = 1 /\ Len(festivalLineups) = 2

\* ---- C24
\* the re-scrape has written its run-log row and returned
RescrapeLogged == prog = "extra" /\ pc = "exited" /\ Len(scrapeLogs) = 1
\* fetchRAEvents or a store call threw into the catch of rescrapeRA
RescrapeCaught == fetchThrew \/ faultsLeft < MaxFaults
\* C24: the run-log row of rescrapeRA is classified like the orchestrator's:
\* status success only when no error occurred during the re-scrape, and
\* the errors that occurred are in its error list
C24_RescrapeLogClassified ==
    RescrapeLogged =>
        /\ scrapeLogs[1].status = "success" <=> ~RescrapeCaught
        /\ RescrapeCaught => scrapeLogs[1].errors # <<>>
\* what the row does hold: the counts of the rows the run inserted
C24_RescrapeLogCounts ==
    RescrapeLogged =>
        /\ scrapeLogs[1].festivalsFound = Len(festivals)
        /\ scrapeLogs[1].artistsFound = Len(artists)
\* a store call threw after the first festival was inserted, and the row
\* says success with no error
C24_ErrorLoggedAsSuccess ==
    /\ RescrapeLogged /\ faultsLeft < MaxFaults /\ ~fetchThrew
    /\ Len(festivals) = 1
    /\ scrapeLogs[1].status = "success" /\ scrapeLogs[1].errors = <<>>

\* ---- C25
\* insertEvent has stored a festival row for data.name in this call
EventStored == prog = "insertEvent" /\ festivalId # Null
\* C25: the primary check of eventExists looks up the slug under which the
\* candidate would be stored: once insertEvent has stored a festival for a
\* name, the exact-slug check alone finds that row for the same name
C25_SlugCheckFindsStored ==
    EventStored => festivalId \in FindFestival(slugifyExtra(data.name))
\* what does hold: the row is stored under slugify(name) + "-2026", and it
\* is the name fallback that finds it again, for names without the LIKE
\* escape character
C25_FallbackFindsStored ==
    EventStored =>
        /\ festivals[festivalId].slug = slugifyExtra(data.name) \o <<"-","2","0","2","6">>
        /\ "\\" \notin Range(data.name) =>
              ilike(festivals[festivalId].name, Containing(Substring20(data.name)))
\* a stored festival that no exact-slug check for its name finds
C25_StoredButSlugMisses ==
    /\ EventStored /\ pc = "exited"
    /\ data.name = TardeoSunsetParty
    /\ festivals[festivalId].slug = tardeoSlug
    /\ FindFestival(slugifyExtra(data.name)) = {}

\* ---- C26
\* a syncArea call or a re-scrape has returned and no run is under way
RunReturned ==
    \/ prog = "sync" /\ Returned
    \/ prog = "extra" /\ pc = "exited"
NoDuplicateRows ==
    /\ Cardinality(VenueNames) = Len(venues)
    /\ Cardinality(ArtistSlugs) = Len(artists)
    /\ Cardinality(FestivalSlugs) = Len(festivals)
    /\ Cardinality(LineupPairs) = Len(festivalLineups)
\* C26: syncArea and rescrapeRA derive the same identity keys: run one
\* after the other, in either order, over the same listings and with no
\* store error, they leave the venue names, artist slugs, festival slugs
\* and lineup pairs that syncArea alone leaves, with no duplicate row
C26_SameKeysEitherOrder ==
    RunReturned =>
        /\ listings = Concat(SteadyServer.pages)
        /\ StoreHolds(listings)
        /\ NoDuplicateRows
\* the re-scrape ran first and inserted everything, then syncArea returned
\* having inserted nothing
C26_Witness ==
    /\ prog = "sync" /\ pc = "exited" /\ calls = 2 /\ Len(scrapeLogs) = 2
    /\ scrapeLogs[1].festivalsFound = 3 /\ scrapeLogs[1].artistsFound = 2
    /\ scrapeLogs[2].festivalsFound = 3 /\ scrapeLogs[2].artistsFound = 4
    /\ lastWrite = "log"
    /\ StoreHolds(listings)
\* syncArea ran first, then the re-scrape found every festival and skipped
C26_WitnessSyncFirst ==
    /\ prog = "extra" /\ pc = "exited" /\ calls = 2 /\ Len(scrapeLogs) = 2
    /\ scrapeLogs[1].artistsFound = 4
    /\ scrapeLogs[2].festivalsFound = 0 /\ scrapeLogs[2].artistsFound = 0

\* ---- C27
RowsNamed(n) == {i \in DOMAIN venues : venues[i].name = n}
AllDone == procs # <<>> /\ \A p \in DOMAIN procs : procs[p].at = "done"
\* C27 as stated: when ingestion processes interleave their store calls
\* over the same listings, the store ends with at most one venue row per
\* venue name
C27_OneRowUnderInterleaving ==
    AllDone => \A n \in VenueNames : Cardinality(RowsNamed(n)) <= 1
\* C27 as the code has it: a name gets a second row only when a process
\* looked it up while another had looked it up and not yet inserted it, and
\* never more rows than there are processes; runs whose look-ups never fall
\* into that window leave one row per name
C27_OneRowPerProcessAtMost ==
    /\ \A n \in VenueNames : Cardinality(RowsNamed(n)) <= MaxProcs
    /\ ~overlapped => \A n \in VenueNames : Cardinality(RowsNamed(n)) <= 1
\* both processes missed "Vx" before either inserted it: two rows
C27_Witness ==
    /\ AllDone /\ overlapped
    /\ Cardinality(RowsNamed(ListingA.venue.name)) = 2

\* ---- C28
\* the artist slots the call has entered, those it counted, those for which
\* it recorded an error, and those whose lineup insert threw
SlotsTried == {<<ops[k].li, ops[k].ai>> : k \in {j \in DOMAIN ops : ops[j].op = "artist.upsert"}}
SlotCounted(s) ==
    \E k \in DOMAIN ops :
        ops[k].op = "artist.upsert" /\ ops[k].ok /\ <<ops[k].li, ops[k].ai>> = s
SlotFailed(s) ==
    \E k \in DOMAIN ops : IsFailedArtistOp(ops[k]) /\ <<ops[k].li, ops[k].ai>> = s
SlotLinkThrew(s) ==
    \E k \in DOMAIN ops :
        ops[k].op = "lineup.insert" /\ ~ops[k].ok /\ <<ops[k].li, ops[k].ai>> = s
ArtistErrorCount == Len(SelectSeq(errors, IsArtistError))
\* no artist slot is between its upsert and its lineup insert
SlotsSettled == pc # "link"
\* C28 as stated: for every artist slot entered, either artistsFound was
\* incremented or one error naming the artist was recorded, never both and
\* never neither, so that artistsFound plus the number of artist errors is
\* the number of slots processed
C28_CountedXorFailed ==
    SlotsSettled =>
        /\ \A s \in SlotsTried : SlotCounted(s) <=> ~SlotFailed(s)
        /\ artistsFound + ArtistErrorCount = Cardinality(SlotsTried)
\* C28 as the code has it: artistsFound counts the slots whose upsertArtist
\* returned, the artist errors are the slots whose upsert or lineup insert
\* threw; a slot is never neither, and it is both exactly when its lineup
\* insert threw, so the sum exceeds the slots by the failed lineup inserts;
\* this holds throughout every run
SlotsAccounted ==
    /\ artistsFound = Cardinality({s \in SlotsTried : SlotCounted(s)})
    /\ ArtistErrorCount = Cardinality({s \in SlotsTried : SlotFailed(s)})
    /\ \A s \in SlotsTried :
          /\ SlotCounted(s) \/ SlotFailed(s)
          /\ (SlotCounted(s) /\ SlotFailed(s)) <=> SlotLinkThrew(s)
    /\ artistsFound + ArtistErrorCount =
          Cardinality(SlotsTried) + Cardinality({s \in SlotsTried : SlotLinkThrew(s)})
C28_CountedOrFailed == [](SlotsSettled => SlotsAccounted)
\* a slot whose artist was upserted and counted and whose lineup insert
\* threw; another slot went through clean
C28_Witness ==
    /\ SlotsSettled /\ pc = "log"
    /\ \E s \in SlotsTried : SlotLinkThrew(s) /\ SlotCounted(s)
    /\ \E s \in SlotsTried : SlotCounted(s) /\ ~SlotFailed(s)
    /\ artistsFound + ArtistErrorCount = Cardinality(SlotsTried) + 1

\* ---- C29
\* C29 as stated: whatever the order in which sync, the RA re-scrape and
\* manual enrichment have run one after another, no two venue rows share a
\* name
C29_VenueNamesUnique ==
    \A i, j \in DOMAIN venues : venues[i].name = venues[j].name => i = j
\* the venue manual enrichment looks up before it inserts is never doubled
C29_LookedUpVenueOnce == Cardinality(RowsNamed(RanchoLaMerced)) <= 1
\* manual enrichment has returned after sync stored the club, and the club
\* has two rows
C29_ClubStoredTwice ==
    /\ prog = "manual" /\ pc = "exited"
    /\ Cardinality(RowsNamed(KokoClub)) = 2

\* ---- C30
\* insertEvent is in, or has ended, its second call on a store that began
\* empty, with the data of the first call
SecondSameCall ==
    /\ prog = "insertEvent" /\ calls = 2
    /\ festivals # <<>> /\ festivals[1].name = data.name
\* the second call is answered by eventExists and returns with nothing written
DetectedAsDuplicate ==
    /\ pc \in {"ie.exists", "exited"}
    /\ Len(festivals) = 1 /\ lastWrite = "none"
\* C30: insertEvent called twice in sequence with the same data inserts one
\* festival row; the second call is detected as a duplicate by eventExists,
\* writes nothing and throws nothing
C30_SecondCallIsNoOp == SecondSameCall => DetectedAsDuplicate
\* what does hold: it is so for every name without the LIKE escape character
C30_PlainNameIsNoOp ==
    (SecondSameCall /\ "\\" \notin Range(data.name)) => DetectedAsDuplicate
\* the second call for "a\c" went past eventExists and its festival insert
\* was rejected by the unique slug
C30_SecondCallRejected ==
    /\ SecondSameCall /\ data.name = <<"a", "\\", "c">>
    /\ pc = "crashed" /\ Len(festivals) = 1
====
